---- MODULE Spec2Model ----
(***************************************************************************)
(* A model of ost-export: the mailbox tree walker (extractFolder), the      *)
(* attachment drain inside it, the exporter (exportToFiles) and the batch   *)
(* driver (convertOST, processAllOSTFiles).                                 *)
(*                                                                          *)
(* Strings are sequences of one-character strings, so that replace, slice   *)
(* and startsWith are computed and not assumed.  A byte sequence read from  *)
(* a stream is a sequence of segments [off, len] of the stream's bytes      *)
(* (bytes off .. off+len-1), adjacent segments merged: two buffers are      *)
(* equal exactly when their merged segment lists are.                       *)
(***************************************************************************)
EXTENDS Integers, Sequences, FiniteSets, TLC

VARIABLES
    attIn,      \* SpecDrain: the attachment object handed to one for-iteration
    drainOut,   \* SpecDrain: [done, atts, fallback]: the attachments array after it
    stack,      \* extractFolder activations, innermost last
    extracted,  \* the outcome of the outermost extractFolder call
    budget,     \* the objects (items, attachments, subfolders) the reader may still deliver
    xstack,     \* exportToFiles activations, innermost last
    xresult,    \* the outcome of the outermost exportToFiles call
    exporting,  \* the tree handed to the outermost exportToFiles call
    inflight,   \* filesystem operations started and not yet settled
    fslog,      \* the settled operations of the running export, in order: [op, ok]
    batch,      \* processAllOSTFiles / convertOST: position and locals
    firstRun    \* SpecTwice: [done, files]: the files an earlier export left

vars == <<attIn, drainOut, stack, extracted, budget, xstack, xresult,
          exporting, inflight, fslog, batch, firstRun>>

drainVars   == <<attIn, drainOut>>
extractVars == <<stack, extracted, budget>>
exportVars  == <<xstack, xresult, exporting, inflight, fslog>>

----------------------------------------------------------------------------
(* Bounds of the model *)

MaxReads == 3       \* reads a stream script holds
MaxObjects == 3     \* items, attachments and subfolders the reader delivers in one run
MaxRecords == 3     \* messages, attachments, contacts and appointments of an exported tree
MaxFiles == 2       \* entries of the directory listing
BatchObjects == 2   \* MaxObjects for each input file of a batch run

----------------------------------------------------------------------------
(* Strings *)

Min(a, b) == IF a < b THEN a ELSE b

Take(s, n) == SubSeq(s, 1, Min(n, Len(s)))

StartsWith(s, p) == Len(s) >= Len(p) /\ SubSeq(s, 1, Len(p)) = p

InvalidChars == {"<", ">", ":", "\"", "/", "\\", "|", "?", "*"}

MaxNameLen == 180

\* Mutant of sanitizeFilename: the characters are replaced, the name is not
\* cut
sanitizeUncut(filename) ==
    [i \in 1..Len(filename) |->
       IF filename[i] \in InvalidChars THEN "_" ELSE filename[i]]

sanitizeFilename(filename) ==
    LET sanitized == [i \in 1..Len(filename) |->
                        IF filename[i] \in InvalidChars THEN "_" ELSE filename[i]]
    IN  Take(sanitized, MaxNameLen)

\* a || b on strings: the empty string is falsy
OrElse(a, b) == IF a = <<>> THEN b ELSE a

----------------------------------------------------------------------------
(* The attachment drain *)

bufferSize == 8176

SmallAttachment == 1024 * 1024

OctetStream == <<"application/octet-stream">>

\* Buffer.concat / Buffer.from: the bytes of the segments in order
RECURSIVE Merge(_)
Merge(segs) ==
    IF Len(segs) <= 1 THEN segs
    ELSE LET rest == Merge(Tail(segs))
             a == Head(segs)
             b == Head(rest)
         IN  IF a.off + a.len = b.off
             THEN <<[off |-> a.off, len |-> a.len + b.len]>> \o Tail(rest)
             ELSE <<a>> \o rest

RECURSIVE SumLen(_)
SumLen(reads) ==
    IF reads = <<>> THEN 0
    ELSE (IF Head(reads).raise THEN 0 ELSE Head(reads).n) + SumLen(Tail(reads))

\* The stream's byte count: what its reads deliver when none is skipped
StreamBytes(stream) == SumLen(stream.script)

\* Mutant of ChunkLoop: the last, shorter chunk is not kept
RECURSIVE ChunkLoopDropsLast(_, _, _, _)
ChunkLoopDropsLast(stream, idx, pos, chunks) ==
    IF idx > Len(stream.script)
    THEN [raised |-> FALSE, pos |-> pos, chunks |-> chunks]
    ELSE LET r == stream.script[idx] IN
         IF r.raise
         THEN [raised |-> TRUE, pos |-> pos, chunks |-> chunks]
         ELSE LET got == IF r.n > 0
                         THEN Append(chunks, [off |-> pos, len |-> r.n])
                         ELSE chunks
              IN  IF r.n = bufferSize
                  THEN ChunkLoopDropsLast(stream, idx + 1, pos + r.n, got)
                  ELSE [raised |-> FALSE, pos |-> pos + r.n, chunks |-> chunks]

\* do { bytesRead = read(buffer); if (bytesRead > 0) chunks.push(...) }
\* while (bytesRead === bufferSize).  The idx-th read(buffer) answers
\* stream.script[idx]; past the script it answers -1.
RECURSIVE ChunkLoop(_, _, _, _)
ChunkLoop(stream, idx, pos, chunks) ==
    IF idx > Len(stream.script)
    THEN [raised |-> FALSE, pos |-> pos, chunks |-> chunks]
    ELSE LET r == stream.script[idx] IN
         IF r.raise
         THEN [raised |-> TRUE, pos |-> pos, chunks |-> chunks]
         ELSE LET got == IF r.n > 0
                         THEN Append(chunks, [off |-> pos, len |-> r.n])
                         ELSE chunks
              IN  IF r.n = bufferSize
                  THEN ChunkLoop(stream, idx + 1, pos + r.n, got)
                  ELSE [raised |-> FALSE, pos |-> pos + r.n, chunks |-> got]

\* while ((byte = read()) !== -1) rawData.push(byte): from the stream's
\* position; read() raises at byte offset stream.byteErr (-1: never)
RECURSIVE ByteLoop(_, _, _)
ByteLoop(stream, pos, rawData) ==
    IF pos = stream.byteErr
    THEN [raised |-> TRUE, rawData |-> rawData]
    ELSE IF pos >= StreamBytes(stream)
         THEN [raised |-> FALSE, rawData |-> rawData]
         ELSE ByteLoop(stream, pos + 1, Append(rawData, [off |-> pos, len |-> 1]))

AttachmentRecord(attachment, data) ==
    [filename    |-> sanitizeFilename(OrElse(attachment.longFilename, attachment.filename)),
     data        |-> Merge(data),
     contentType |-> OrElse(attachment.mimeTag, OctetStream)]

\* if (attachment.size && attachment.size < 1024 * 1024): 0 is falsy
FallbackGuard(attachment) ==
    attachment.size # 0 /\ attachment.size < SmallAttachment

\* The catch (streamError) block: the byte-wise read for small attachments
FallbackRead(attachment, pos, attachments) ==
    IF FallbackGuard(attachment)
    THEN LET f == ByteLoop(attachment.stream, pos, <<>>) IN
         IF ~f.raised /\ Len(f.rawData) > 0
         THEN Append(attachments, AttachmentRecord(attachment, f.rawData))
         ELSE attachments
    ELSE attachments

\* Mutant of ExtractAttachment: a raising getAttachment empties the array
ExtractAttachmentClears(attachment, attachments) ==
    IF attachment.getRaises THEN <<>>
    ELSE IF attachment.isNull \/ attachment.filename = <<>> THEN attachments
    ELSE IF ~attachment.hasStream THEN attachments
    ELSE LET p == ChunkLoop(attachment.stream, 1, 0, <<>>) IN
         IF p.raised
         THEN FallbackRead(attachment, p.pos, attachments)
         ELSE IF Len(p.chunks) > 0
              THEN Append(attachments, AttachmentRecord(attachment, p.chunks))
              ELSE attachments

\* One iteration of the for loop over the message's attachments: the
\* attachments array after it
ExtractAttachment(attachment, attachments) ==
    IF attachment.getRaises THEN attachments
    ELSE IF attachment.isNull \/ attachment.filename = <<>> THEN attachments
    ELSE IF ~attachment.hasStream THEN attachments
    ELSE LET p == ChunkLoop(attachment.stream, 1, 0, <<>>) IN
         IF p.raised
         THEN FallbackRead(attachment, p.pos, attachments)
         ELSE IF Len(p.chunks) > 0
              THEN Append(attachments, AttachmentRecord(attachment, p.chunks))
              ELSE attachments

----------------------------------------------------------------------------
(* The reader's attachment objects *)

\* One read(buffer): it raises, or returns n bytes (0 and -1: no bytes)
ReadOutcomes ==
    {[raise |-> TRUE, n |-> 0]}
    \cup {[raise |-> FALSE, n |-> k] : k \in {1, 2, bufferSize}}

RECURSIVE SeqsUpTo(_, _)
SeqsUpTo(S, n) ==
    IF n = 0 THEN {<<>>}
    ELSE LET shorter == SeqsUpTo(S, n - 1) IN
         shorter \cup {Append(q, x) : q \in {r \in shorter : Len(r) = n - 1}, x \in S}

\* The scripts of at most MaxReads reads; after a read that raised only short
\* reads follow, which keeps the byte-wise loop's run short
Scripts ==
    {q \in SeqsUpTo(ReadOutcomes, MaxReads) :
        \A i, j \in 1..Len(q) : (i < j /\ q[i].raise) => q[j].n < bufferSize}

Streams ==
    {[script |-> q, byteErr |-> e] : q \in Scripts, e \in {-1, bufferSize + 1}}

NoStream == [script |-> <<>>, byteErr |-> -1]

FileA == <<"a", ".", "t", "x", "t">>
FileLong == <<"r", "e", ":", "a", "?", ".", "t", "x", "t">>
TextPlain == <<"text/plain">>

GoodAttachments ==
    {[getRaises |-> FALSE, isNull |-> FALSE, filename |-> FileA,
      longFilename |-> l, mimeTag |-> m, size |-> z,
      hasStream |-> TRUE, stream |-> st] :
        l \in {<<>>, FileLong}, m \in {<<>>, TextPlain},
        z \in {0, bufferSize + 2, SmallAttachment}, st \in Streams}

BadAttachment(getRaises, isNull, filename, hasStream) ==
    [getRaises |-> getRaises, isNull |-> isNull, filename |-> filename,
     longFilename |-> <<>>, mimeTag |-> <<>>, size |-> 1,
     hasStream |-> hasStream,
     stream |-> IF hasStream
                THEN [script |-> <<[raise |-> FALSE, n |-> 1]>>, byteErr |-> -1]
                ELSE NoStream]

BadAttachments ==
    {BadAttachment(TRUE, FALSE, FileA, TRUE),
     BadAttachment(FALSE, TRUE, <<>>, FALSE),
     BadAttachment(FALSE, FALSE, <<>>, TRUE),
     BadAttachment(FALSE, FALSE, FileA, FALSE)}

DrainInputs == GoodAttachments \cup BadAttachments

----------------------------------------------------------------------------
(* Idle values of the parts a specification does not run *)

EmptyFolder ==
    [name |-> <<>>, messages |-> <<>>, contacts |-> <<>>,
     appointments |-> <<>>, subfolders |-> <<>>]

DrainIdle ==
    /\ attIn = BadAttachment(FALSE, TRUE, <<>>, FALSE)
    /\ drainOut = [done |-> TRUE, atts |-> <<>>, fallback |-> FALSE]

ExtractIdle ==
    /\ stack = <<>>
    /\ extracted = [kind |-> "none", data |-> EmptyFolder]
    /\ budget = 0

NoRun == [done |-> FALSE, files |-> {}]

ExportIdle ==
    /\ xstack = <<>>
    /\ xresult = "none"
    /\ exporting = EmptyFolder
    /\ inflight = {}
    /\ fslog = <<>>
    /\ firstRun = NoRun

BatchIdle ==
    batch = [pc |-> "idle", ostFiles |-> <<>>, idx |-> 0, attempted |-> <<>>,
             failed |-> <<>>, error |-> ""]

----------------------------------------------------------------------------
(* SpecDrain: one iteration of the attachment loop on every attachment    *)
(* object of DrainInputs                                                   *)

InitDrain ==
    /\ attIn \in DrainInputs
    /\ drainOut = [done |-> FALSE, atts |-> <<>>, fallback |-> FALSE]
    /\ ExtractIdle /\ ExportIdle /\ BatchIdle

\* Whether the iteration enters while ((byte = read()) !== -1): the chunk
\* loop was reached and raised, and the size test let the byte loop run
EntersByteLoop(attachment) ==
    /\ ~attachment.getRaises
    /\ ~(attachment.isNull \/ attachment.filename = <<>>)
    /\ attachment.hasStream
    /\ ChunkLoop(attachment.stream, 1, 0, <<>>).raised
    /\ FallbackGuard(attachment)

Drain ==
    /\ ~drainOut.done
    /\ drainOut' = [done |-> TRUE, atts |-> ExtractAttachment(attIn, <<>>),
                    fallback |-> EntersByteLoop(attIn)]
    /\ UNCHANGED <<attIn, extractVars, exportVars, batch, firstRun>>

NextDrain == Drain

SpecDrain == InitDrain /\ [][NextDrain]_vars

Readable(a) == ~a.getRaises /\ ~a.isNull /\ a.filename # <<>> /\ a.hasStream

NeverRaises(stream) == \A i \in 1..Len(stream.script) : ~stream.script[i].raise

WholeStream(stream) == <<[off |-> 0, len |-> StreamBytes(stream)]>>

\* C5: a stream that yields exactly N >= 1 bytes in chunks smaller than the
\* buffer size, no read raising, drains to exactly those N bytes in order.
C5_ShortChunksDrainWhole ==
    (/\ drainOut.done
     /\ Readable(attIn)
     /\ NeverRaises(attIn.stream)
     /\ StreamBytes(attIn.stream) >= 1
     /\ \A i \in 1..Len(attIn.stream.script) :
            attIn.stream.script[i].n < bufferSize)
    => /\ Len(drainOut.atts) = 1
       /\ drainOut.atts[1].data = WholeStream(attIn.stream)

\* C5, amended: a stream that yields exactly N >= 1 bytes in reads that each
\* fill the buffer, but for the last, which may be shorter, no read raising,
\* drains to exactly those N bytes, in order and without duplication.
C5_FullChunksDrainWhole ==
    (/\ drainOut.done
     /\ Readable(attIn)
     /\ NeverRaises(attIn.stream)
     /\ StreamBytes(attIn.stream) >= 1
     /\ \A i \in 1..(Len(attIn.stream.script) - 1) :
            attIn.stream.script[i].n = bufferSize)
    => /\ Len(drainOut.atts) = 1
       /\ drainOut.atts[1].data = WholeStream(attIn.stream)

\* C5: a stream of two full reads and a short one was drained whole
C5_Witness ==
    /\ drainOut.done
    /\ Readable(attIn)
    /\ attIn.stream.script = <<[raise |-> FALSE, n |-> bufferSize],
                               [raise |-> FALSE, n |-> bufferSize],
                               [raise |-> FALSE, n |-> 1]>>
    /\ Len(drainOut.atts) = 1
    /\ drainOut.atts[1].data = <<[off |-> 0, len |-> 2 * bufferSize + 1]>>

\* C6 (its fallback case): when the chunked strategy raised, the attachment
\* yields no record or a record holding the stream's complete bytes, never a
\* record holding only part of them.
C6_NoPartialAfterFallback ==
    (/\ drainOut.done
     /\ Readable(attIn)
     /\ ChunkLoop(attIn.stream, 1, 0, <<>>).raised)
    => \/ drainOut.atts = <<>>
       \/ /\ Len(drainOut.atts) = 1
          /\ drainOut.atts[1].data = WholeStream(attIn.stream)
          /\ drainOut.atts[1].contentType = OrElse(attIn.mimeTag, OctetStream)

----------------------------------------------------------------------------
(* The reader's items and the records extractFolder builds from them *)

IPM == <<"I", "P", "M", ".">>
IpmNote == IPM \o <<"N", "o", "t", "e">>
IpmContact == IPM \o <<"C", "o", "n", "t", "a", "c", "t">>
IpmAppointment == IPM \o <<"A", "p", "p", "o", "i", "n", "t", "m", "e", "n", "t">>
IpmTask == IPM \o <<"T", "a", "s", "k">>
Report == <<"R", "E", "P", "O", "R", "T">>

UnnamedFolder == <<"U", "n", "n", "a", "m", "e", "d", " ", "F", "o", "l", "d", "e", "r">>
NoSubject == <<"(", "N", "o", " ", "S", "u", "b", "j", "e", "c", "t", ")">>
Inbox == <<"I", "n", "b", "o", "x">>
Hello == <<"H", "e", "l", "l", "o">>
Hi == <<"H", "i">>
JaneDoe == <<"J", "a", "n", "e", " ", "D", "o", "e">>
JaneEmail == <<"j", "a", "n", "e", "@", "x", ".", "c", "o", "m">>
ReAB == <<"R", "e", ":", " ", "a", "/", "b">>
TwoRecipients == <<"a", "@", "x", ";", " ", "b", "@", "x", ";">>
HtmlBody == <<"<", "h", "t", "m", "l", ">", "x">>
SomeHeaders == <<"X", "-", "A", ":", " ", "1">>

\* item.messageClass: absent (has = FALSE), or a string; reading it may raise
Class(str) == [has |-> TRUE, raise |-> FALSE, s |-> str]
AbsentClass == [has |-> FALSE, raise |-> FALSE, s |-> <<>>]
RaisingClass == [has |-> FALSE, raise |-> TRUE, s |-> <<>>]

\* !item.messageClass?.startsWith('IPM.')
IsUnknownType(cls) == ~(cls.has /\ StartsWith(cls.s, IPM))

\* item.messageClass === 'IPM.Note' || item.messageClass.startsWith('IPM.Note.')
IsNote(cls) == cls.s = IpmNote \/ StartsWith(cls.s, IpmNote \o <<".">>)

\* item.messageClass === 'IPM.Contact'
IsContact(cls) == cls.s = IpmContact

\* item.messageClass === 'IPM.Appointment'
IsAppointment(cls) == cls.s = IpmAppointment

RECURSIVE IndexOf(_, _, _)
IndexOf(s, c, from) ==
    IF from > Len(s) THEN 0
    ELSE IF s[from] = c THEN from ELSE IndexOf(s, c, from + 1)

\* s.split(sep)
RECURSIVE Split(_, _)
Split(s, sep) ==
    LET i == IndexOf(s, sep, 1) IN
    IF i = 0 THEN <<s>>
    ELSE <<SubSeq(s, 1, i - 1)>> \o Split(SubSeq(s, i + 1, Len(s)), sep)

\* s.trim()
RECURSIVE Trim(_)
Trim(s) ==
    IF s = <<>> THEN s
    ELSE IF Head(s) = " " THEN Trim(Tail(s))
    ELSE IF s[Len(s)] = " " THEN Trim(SubSeq(s, 1, Len(s) - 1))
    ELSE s

\* list.filter(Boolean) on strings
RECURSIVE NonEmpty(_)
NonEmpty(list) ==
    IF list = <<>> THEN <<>>
    ELSE (IF Head(list) = <<>> THEN <<>> ELSE <<Head(list)>>) \o NonEmpty(Tail(list))

\* message.displayTo ? message.displayTo.split(';').map(trim).filter(Boolean) : []
Recipients(displayTo) ==
    IF displayTo = <<>> THEN <<>>
    ELSE LET parts == Split(displayTo, ";") IN
         NonEmpty([i \in 1..Len(parts) |-> Trim(parts[i])])

\* A Date: a one-element sequence holding its fields, or <<>> (undefined)
Date(y, mo, d, h, mi, sec, ms) ==
    <<[y |-> y, mo |-> mo, d |-> d, h |-> h, mi |-> mi, s |-> sec, ms |-> ms]>>
NoDate == <<>>
DateA == Date(2024, 1, 2, 3, 4, 5, 6)
DateB == Date(2024, 11, 12, 13, 14, 15, 160)

\* The object pushed onto folderData.messages
MessageRecord(message, attachments) ==
    [subject      |-> sanitizeFilename(OrElse(message.subject, NoSubject)),
     sender       |-> message.senderEmailAddress,
     recipients   |-> Recipients(message.displayTo),
     body         |-> IF message.bodyRTF # <<>> /\ ~message.rtfRaises
                      THEN message.bodyRTF
                      ELSE OrElse(message.bodyHTML, message.body),
     sentDate     |-> OrElse(message.clientSubmitTime, message.messageDeliveryTime),
     receivedDate |-> message.messageDeliveryTime,
     headers      |-> message.transportMessageHeaders,
     attachments  |-> attachments]

\* Mutant of AddMessageTo: the record is pushed before the accessors are read
AddMessageEarly(messages, message, attachments) ==
    Append(messages, MessageRecord(message, attachments))

\* The try block that pushes the MessageRecord: a raising accessor leaves
\* folderData.messages as it was
AddMessageTo(messages, message, attachments) ==
    IF message.raises THEN messages
    ELSE Append(messages, MessageRecord(message, attachments))

ContactRecord(item) ==
    [fullName |-> item.displayName, email |-> <<>>, businessPhone |-> <<>>,
     mobilePhone |-> <<>>, homePhone |-> <<>>, address |-> <<>>,
     company |-> <<>>, jobTitle |-> <<>>]

AppointmentRecord(item) ==
    [subject |-> item.subject, location |-> <<>>, startTime |-> NoDate,
     endTime |-> NoDate, body |-> item.body]

PlainMessage ==
    [raises |-> FALSE, subject |-> Hello, senderEmailAddress |-> <<>>,
     displayTo |-> <<>>, bodyHTML |-> <<>>, body |-> Hi, bodyRTF |-> <<>>,
     rtfRaises |-> FALSE, clientSubmitTime |-> NoDate,
     messageDeliveryTime |-> NoDate, transportMessageHeaders |-> <<>>]

RichMessage ==
    [raises |-> FALSE, subject |-> ReAB, senderEmailAddress |-> <<"a", "@", "x">>,
     displayTo |-> TwoRecipients, bodyHTML |-> HtmlBody, body |-> Hi,
     bodyRTF |-> Hi, rtfRaises |-> TRUE, clientSubmitTime |-> NoDate,
     messageDeliveryTime |-> DateA, transportMessageHeaders |-> SomeHeaders]

RaisingMessage == [PlainMessage EXCEPT !.raises = TRUE]

\* The message objects the walker meets
MessageInputs == {PlainMessage, RichMessage, RaisingMessage}

\* The contact and appointment items the walker meets
PlainItems ==
    {[raises |-> FALSE, displayName |-> JaneDoe, email1EmailAddress |-> JaneEmail,
      subject |-> Hello, body |-> Hi],
     [raises |-> TRUE, displayName |-> <<>>, email1EmailAddress |-> <<>>,
      subject |-> <<>>, body |-> <<>>]}

\* The message classes the cursors deliver
SubType == <<".", "S", "M", "I", "M", "E">>

WalkClasses ==
    {AbsentClass, RaisingClass, Class(Report), Class(IpmTask), Class(IpmNote),
     Class(IpmContact), Class(IpmAppointment), Class(IpmNote \o SubType),
     Class(IpmContact \o SubType), Class(IpmAppointment \o SubType)}

OneChunk == [script |-> <<[raise |-> FALSE, n |-> 2]>>, byteErr |-> -1]
RaisingStream == [script |-> <<[raise |-> TRUE, n |-> 0]>>, byteErr |-> 0]

\* The attachment objects the walker meets: one that drains, one whose
\* getAttachment raises, one whose stream raises in both strategies
DrainingAttachment ==
    [getRaises |-> FALSE, isNull |-> FALSE, filename |-> FileA,
     longFilename |-> <<>>, mimeTag |-> <<>>, size |-> 2,
     hasStream |-> TRUE, stream |-> OneChunk]

WalkAttachments ==
    {DrainingAttachment,
     BadAttachment(TRUE, FALSE, FileA, TRUE),
     [getRaises |-> FALSE, isNull |-> FALSE, filename |-> FileA,
      longFilename |-> FileLong, mimeTag |-> TextPlain, size |-> 2,
      hasStream |-> TRUE, stream |-> RaisingStream]}

----------------------------------------------------------------------------
(* extractFolder: one activation per frame of stack.  Besides the locals   *)
(* of the code a frame records what the reader did: total (the items the   *)
(* folder holds), calls (getNextChild calls), delivered (items returned),  *)
(* seen (per visited item: its class, whether an accessor raised at item   *)
(* level, whether an attachment raised, whether reading the attachment     *)
(* count raised, the attachment objects getAttachment was asked for),      *)
(* cursorRaised.                                                            *)

NullItem == [present |-> FALSE, cls |-> AbsentClass]

NewFrame ==
    [pc |-> "enter", data |-> EmptyFolder, item |-> NullItem,
     nAtt |-> 0, i |-> 0, attachments |-> <<>>, kids |-> 0, j |-> 0,
     total |-> 0, calls |-> 0, delivered |-> 0, seen |-> <<>>,
     attRaised |-> FALSE, cursorRaised |-> FALSE, listRaised |-> FALSE,
     childRaised |-> 0, countRaised |-> FALSE, tried |-> <<>>]

Top == stack[Len(stack)]

SetTop(f) == stack' = [stack EXCEPT ![Len(stack)] = f]

Running(pc) == stack # <<>> /\ Top.pc = pc

\* Mutant of Attachable: the test is dropped and every subfolder is attached
AttachableAlways(sub) == Len(sub.messages) >= 0

\* if (subfolderData.messages.length > 0 || ... || subfolders.length > 0)
Attachable(sub) ==
    \/ Len(sub.messages) > 0
    \/ Len(sub.contacts) > 0
    \/ Len(sub.appointments) > 0
    \/ Len(sub.subfolders) > 0

\* Mutant of AfterChild: a raising extractFolder call ends the for-of loop
AfterChildStops(parent, outcome) ==
    [parent EXCEPT
        !.data.subfolders =
            IF outcome.kind = "value" /\ Attachable(outcome.data)
            THEN Append(@, outcome.data) ELSE @,
        !.childRaised = IF outcome.kind = "raise" THEN @ + 1 ELSE @,
        !.j = @ + 1,
        !.pc = IF outcome.kind = "raise" THEN "return" ELSE "children"]

\* The for-of body in the caller, once the awaited extractFolder settled
AfterChild(parent, outcome) ==
    [parent EXCEPT
        !.data.subfolders =
            IF outcome.kind = "value" /\ Attachable(outcome.data)
            THEN Append(@, outcome.data) ELSE @,
        !.childRaised = IF outcome.kind = "raise" THEN @ + 1 ELSE @,
        !.j = @ + 1,
        !.pc = "children"]

\* The activation ends with outcome: the caller's await resumes
Settle(outcome) ==
    IF Len(stack) = 1
    THEN /\ stack' = <<>>
         /\ extracted' = outcome
    ELSE /\ stack' = Append(SubSeq(stack, 1, Len(stack) - 2),
                            AfterChild(stack[Len(stack) - 1], outcome))
         /\ UNCHANGED extracted

Raise == [kind |-> "raise", data |-> EmptyFolder]

Value(data) == [kind |-> "value", data |-> data]

\* What one getNextChild call may answer in frame f
NextOutcomes(f) ==
    {[raise |-> TRUE, item |-> NullItem]}
    \cup (IF f.delivered < f.total
          THEN {[raise |-> FALSE, item |-> [present |-> TRUE, cls |-> c]] :
                    c \in WalkClasses}
          ELSE {[raise |-> FALSE, item |-> NullItem]})

\* Mutant of AfterNext: a raising getNextChild ends the folder, subfolders
\* included
AfterNextSkipsDescent(f, o) ==
    IF o.raise
    THEN [f EXCEPT !.pc = "return", !.item = NullItem, !.calls = @ + 1,
                   !.cursorRaised = TRUE]
    ELSE [f EXCEPT !.pc = IF o.item.present THEN "loop" ELSE "subfolders",
                   !.item = o.item, !.calls = @ + 1,
                   !.delivered = IF o.item.present THEN @ + 1 ELSE @]

\* try { item = folder.getNextChild(); } catch { break; } and the loop test
AfterNext(f, o) ==
    IF o.raise
    THEN [f EXCEPT !.pc = "subfolders", !.item = NullItem, !.calls = @ + 1,
                   !.cursorRaised = TRUE]
    ELSE [f EXCEPT !.pc = IF o.item.present THEN "loop" ELSE "subfolders",
                   !.item = o.item, !.calls = @ + 1,
                   !.delivered = IF o.item.present THEN @ + 1 ELSE @]

\* Mutant of AfterSkip: the unknown-type branch leaves the loop
AfterSkipHalts(f, o) == [AfterNext(f, o) EXCEPT !.pc = "subfolders"]

\* Mutant of AfterSkip: the unknown-type branch falls through to the
\* getNextChild at the end of the loop body, which takes one more item
AfterSkipTwice(f, o) ==
    LET g == AfterNext(f, o) IN
    IF g.pc # "loop" THEN g
    ELSE IF g.delivered < g.total
         THEN [g EXCEPT !.calls = @ + 1, !.delivered = @ + 1]
         ELSE [g EXCEPT !.calls = @ + 1, !.item = NullItem, !.pc = "subfolders"]

\* Mutant of AfterSkip: the unknown-type branch continues without a
\* getNextChild call, the loop has the same item in hand again
AfterSkipRetries(f, o) ==
    [f EXCEPT !.seen = SubSeq(@, 1, Len(@) - 1)]

\* The unknown-type branch: getNextChild, break if it raises, else continue
AfterSkip(f, o) == AfterNext(f, o)

Visited(f, raised) ==
    [f EXCEPT !.seen = Append(@, [cls |-> f.item.cls, raised |-> raised,
                                  attRaised |-> f.attRaised,
                                  countRaised |-> f.countRaised,
                                  tried |-> f.tried]),
              !.attRaised = FALSE, !.countRaised = FALSE, !.tried = <<>>]

\* name: folder.displayName || 'Unnamed Folder', and if (folder.contentCount > 0)
EnterFolder ==
    /\ Running("enter")
    /\ \/ /\ Settle(Raise)          \* displayName or contentCount raises
          /\ UNCHANGED budget
       \/ \E name \in {<<>>, Inbox}, n \in 0..budget :
            /\ SetTop([Top EXCEPT !.data.name = OrElse(name, UnnamedFolder),
                                  !.total = n,
                                  !.pc = IF n > 0 THEN "first" ELSE "subfolders"])
            /\ budget' = budget - n
            /\ UNCHANGED extracted
    /\ UNCHANGED <<drainVars, firstRun, exportVars, batch>>

\* let item = folder.getNextChild(), inside the outer try
FirstChild ==
    /\ Running("first")
    /\ \E o \in NextOutcomes(Top) : SetTop(AfterNext(Top, o))
    /\ UNCHANGED <<extracted, budget, drainVars, firstRun, exportVars, batch>>

\* if (!item.messageClass?.startsWith('IPM.')) { ...getNextChild...; continue }
SkipUnknown ==
    /\ Running("loop")
    /\ ~Top.item.cls.raise
    /\ IsUnknownType(Top.item.cls)
    /\ \E o \in NextOutcomes(Top) : SetTop(AfterSkip(Visited(Top, FALSE), o))
    /\ UNCHANGED <<extracted, budget, drainVars, firstRun, exportVars, batch>>

\* Reading item.messageClass raises: catch (itemError)
ClassRaises ==
    /\ Running("loop")
    /\ Top.item.cls.raise
    /\ SetTop([Visited(Top, TRUE) EXCEPT !.pc = "advance"])
    /\ UNCHANGED <<extracted, budget, drainVars, firstRun, exportVars, batch>>

\* The IPM.Note branch up to the attachment loop: message.numberOfAttachments
VisitNote ==
    /\ Running("loop")
    /\ ~Top.item.cls.raise /\ ~IsUnknownType(Top.item.cls) /\ IsNote(Top.item.cls)
    /\ \/ /\ SetTop([Visited([Top EXCEPT !.countRaised = TRUE], TRUE)
                        EXCEPT !.pc = "advance"])
          /\ UNCHANGED budget
       \/ \E n \in 0..budget :
            /\ SetTop([Top EXCEPT !.nAtt = n, !.i = 0, !.attachments = <<>>,
                                  !.pc = IF n > 0 THEN "attachments" ELSE "message"])
            /\ budget' = budget - n
    /\ UNCHANGED <<extracted, drainVars, firstRun, exportVars, batch>>

AttachmentRaises(a) ==
    \/ a.getRaises
    \/ Readable(a) /\ ChunkLoop(a.stream, 1, 0, <<>>).raised

\* One iteration of for (let i = 0; i < message.numberOfAttachments; i++)
AttachmentStep ==
    /\ Running("attachments")
    /\ \E a \in WalkAttachments :
         SetTop([Top EXCEPT
                    !.attachments = ExtractAttachment(a, @),
                    !.tried = Append(@, a),
                    !.attRaised = @ \/ AttachmentRaises(a),
                    !.i = @ + 1,
                    !.pc = IF Top.i + 1 < Top.nAtt THEN "attachments" ELSE "message"])
    /\ UNCHANGED <<extracted, budget, drainVars, firstRun, exportVars, batch>>

\* i < message.numberOfAttachments, the test of the for loop before each
\* iteration and after the last: a raise is outside the attachment try,
\* catch (itemError) takes it and the attachments array is dropped
CountRaises ==
    /\ \/ Running("attachments")
       \/ Running("message") /\ Top.nAtt > 0
    /\ SetTop([Visited([Top EXCEPT !.countRaised = TRUE], TRUE) EXCEPT
                  !.attachments = <<>>, !.nAtt = 0, !.i = 0, !.pc = "advance"])
    /\ UNCHANGED <<extracted, budget, drainVars, firstRun, exportVars, batch>>

\* try { ... folderData.messages.push({...}) } catch (messageError)
AddMessage ==
    /\ Running("message")
    /\ \E m \in MessageInputs :
         SetTop([Visited(Top, m.raises) EXCEPT
                    !.data.messages = AddMessageTo(@, m, Top.attachments),
                    !.attachments = <<>>, !.nAtt = 0, !.i = 0,
                    !.pc = "advance"])
    /\ UNCHANGED <<extracted, budget, drainVars, firstRun, exportVars, batch>>

\* else if (item.messageClass === 'IPM.Contact') folderData.contacts.push
AddContact ==
    /\ Running("loop")
    /\ ~Top.item.cls.raise /\ ~IsUnknownType(Top.item.cls)
    /\ ~IsNote(Top.item.cls) /\ IsContact(Top.item.cls)
    /\ \E it \in PlainItems :
         SetTop([Visited(Top, it.raises) EXCEPT
                    !.data.contacts =
                        IF it.raises THEN @ ELSE Append(@, ContactRecord(it)),
                    !.pc = "advance"])
    /\ UNCHANGED <<extracted, budget, drainVars, firstRun, exportVars, batch>>

\* else if (item.messageClass === 'IPM.Appointment') folderData.appointments.push
AddAppointment ==
    /\ Running("loop")
    /\ ~Top.item.cls.raise /\ ~IsUnknownType(Top.item.cls)
    /\ ~IsNote(Top.item.cls) /\ ~IsContact(Top.item.cls)
    /\ IsAppointment(Top.item.cls)
    /\ \E it \in PlainItems :
         SetTop([Visited(Top, it.raises) EXCEPT
                    !.data.appointments =
                        IF it.raises THEN @ ELSE Append(@, AppointmentRecord(it)),
                    !.pc = "advance"])
    /\ UNCHANGED <<extracted, budget, drainVars, firstRun, exportVars, batch>>

\* An IPM. class no branch matches: nothing is pushed
VisitOther ==
    /\ Running("loop")
    /\ ~Top.item.cls.raise /\ ~IsUnknownType(Top.item.cls)
    /\ ~IsNote(Top.item.cls) /\ ~IsContact(Top.item.cls)
    /\ ~IsAppointment(Top.item.cls)
    /\ SetTop([Visited(Top, FALSE) EXCEPT !.pc = "advance"])
    /\ UNCHANGED <<extracted, budget, drainVars, firstRun, exportVars, batch>>

\* The getNextChild at the end of the loop body
NextChild ==
    /\ Running("advance")
    /\ \E o \in NextOutcomes(Top) : SetTop(AfterNext(Top, o))
    /\ UNCHANGED <<extracted, budget, drainVars, firstRun, exportVars, batch>>

\* if (folder.hasSubfolders) { try { childFolders = folder.getSubFolders() ...
ListSubfolders ==
    /\ Running("subfolders")
    /\ \/ /\ Settle(Raise)          \* hasSubfolders raises
          /\ UNCHANGED budget
       \/ /\ SetTop([Top EXCEPT !.pc = "return"])     \* hasSubfolders is false
          /\ UNCHANGED <<extracted, budget>>
       \/ /\ SetTop([Top EXCEPT !.pc = "return", !.listRaised = TRUE])
          /\ UNCHANGED <<extracted, budget>>
       \/ \E k \in 0..budget :
            /\ SetTop([Top EXCEPT !.kids = k, !.j = 0, !.pc = "children"])
            /\ budget' = budget - k
            /\ UNCHANGED extracted
    /\ UNCHANGED <<drainVars, firstRun, exportVars, batch>>

\* await extractFolder(childFolder)
CallChild ==
    /\ Running("children")
    /\ Top.j < Top.kids
    /\ stack' = Append([stack EXCEPT ![Len(stack)].pc = "await"], NewFrame)
    /\ UNCHANGED <<extracted, budget, drainVars, firstRun, exportVars, batch>>

\* return folderData
ReturnFolder ==
    /\ \/ Running("return")
       \/ Running("children") /\ Top.j = Top.kids
    /\ Settle(Value(Top.data))
    /\ UNCHANGED <<budget, drainVars, firstRun, exportVars, batch>>

InitExtract ==
    /\ stack = <<NewFrame>>
    /\ extracted = [kind |-> "none", data |-> EmptyFolder]
    /\ budget = MaxObjects
    /\ DrainIdle /\ ExportIdle /\ BatchIdle

NextExtract ==
    \/ EnterFolder \/ FirstChild \/ SkipUnknown \/ ClassRaises \/ VisitNote
    \/ AttachmentStep \/ CountRaises \/ AddMessage \/ AddContact \/ AddAppointment
    \/ VisitOther \/ NextChild \/ ListSubfolders \/ CallChild \/ ReturnFolder

SpecExtract == InitExtract /\ [][NextExtract]_vars

\* extractFolder with every reader call returning or raising: the program
\* takes its next step whenever it has one
SpecExtractFair == SpecExtract /\ WF_vars(NextExtract)

----------------------------------------------------------------------------
(* Claims about extractFolder, checked under SpecExtract *)

Frames == {stack[k] : k \in 1..Len(stack)}

AfterLoop == {"subfolders", "children", "await", "return"}

Records(data) == Len(data.messages) + Len(data.contacts) + Len(data.appointments)

Unrecognized(cls) ==
    ~cls.raise /\ (IsUnknownType(cls)
                   \/ (~IsNote(cls) /\ ~IsContact(cls) /\ ~IsAppointment(cls)))

\* The visited items of f that were of class test and raised nothing at item level
Good(f, IsClass(_)) ==
    {k \in DOMAIN f.seen :
        /\ ~f.seen[k].cls.raise /\ ~IsUnknownType(f.seen[k].cls)
        /\ IsClass(f.seen[k].cls) /\ ~f.seen[k].raised}

\* Every item the folder holds is visited unless a getNextChild call raised
Continues(f) ==
    /\ Len(f.seen) <= f.delivered
    /\ f.delivered <= f.total
    /\ (f.pc \in AfterLoop /\ ~f.cursorRaised) => Len(f.seen) = f.total

\* C1: the outermost extractFolder call never raises.
C1_ExtractNeverRaises == extracted.kind # "raise"

\* C2 as stated: an item whose processing raised anywhere (an accessor, the
\* attachment drain, the record construction) adds no record, and the items
\* after it are still visited.
C2_RaisingItemAddsNothing ==
    \A f \in Frames :
        /\ Records(f.data) <=
              Cardinality({k \in DOMAIN f.seen :
                              ~f.seen[k].raised /\ ~f.seen[k].attRaised})
        /\ Continues(f)

\* C2 amended: an item that raised at item level (its class, its attachment
\* count, its fields) adds no record; a message whose attachment drain raised is
\* still recorded; every other recognized item adds exactly one record; and
\* every item of the folder is visited unless a getNextChild call raised.
C2_ItemFaultIsolated ==
    \A f \in Frames :
        /\ Len(f.data.messages) = Cardinality(Good(f, IsNote))
        /\ Len(f.data.contacts) =
              Cardinality(Good(f, LAMBDA c : ~IsNote(c) /\ IsContact(c)))
        /\ Len(f.data.appointments) =
              Cardinality(Good(f, LAMBDA c : ~IsNote(c) /\ ~IsContact(c)
                                              /\ IsAppointment(c)))
        /\ Continues(f)

\* A folder whose first item raised and whose second item was recorded
C2_Witness ==
    \E f \in Frames :
        /\ Len(f.seen) = 2
        /\ f.seen[1].raised /\ ~f.seen[2].raised
        /\ Records(f.data) = 1

\* C3: an item of unrecognized type adds no record, and the items after it are
\* still visited unless a getNextChild call raised.
C3_UnrecognizedSkipped ==
    \A f \in Frames :
        /\ Records(f.data) <=
              Cardinality({k \in DOMAIN f.seen : ~Unrecognized(f.seen[k].cls)})
        /\ Len(f.seen) <= f.delivered
        /\ (/\ f.pc \in AfterLoop /\ ~f.cursorRaised
            /\ f.seen # <<>> /\ Unrecognized(f.seen[Len(f.seen)].cls))
           => Len(f.seen) = f.total

\* A folder whose first item was unrecognized and whose second was recorded
C3_Witness ==
    \E f \in Frames :
        /\ Len(f.seen) = 2
        /\ Unrecognized(f.seen[1].cls)
        /\ Records(f.data) = 1

RECURSIVE HasRecord(_)
HasRecord(data) ==
    \/ Records(data) > 0
    \/ \E k \in DOMAIN data.subfolders : HasRecord(data.subfolders[k])

RECURSIVE Pruned(_)
Pruned(data) ==
    \A k \in DOMAIN data.subfolders :
        HasRecord(data.subfolders[k]) /\ Pruned(data.subfolders[k])

\* C4: every folder in a subfolders list, at any depth, holds a record in itself
\* or in a descendant.
C4_SubfoldersHoldRecords ==
    /\ \A f \in Frames : Pruned(f.data)
    /\ Pruned(extracted.data)

\* A returned tree whose subfolder is attached for its own subfolder's record
C4_Witness ==
    /\ extracted.kind = "value"
    /\ Len(extracted.data.subfolders) = 1
    /\ Records(extracted.data.subfolders[1]) = 0
    /\ Len(extracted.data.subfolders[1].subfolders) = 1

----------------------------------------------------------------------------
(* exportToFiles *)

Digit(d) == <<"0", "1", "2", "3", "4", "5", "6", "7", "8", "9">>[d + 1]

\* n in decimal, zero-padded to w digits
RECURSIVE Digits(_, _)
Digits(n, w) == IF w = 0 THEN <<>> ELSE Digits(n \div 10, w - 1) \o <<Digit(n % 10)>>

\* date.toISOString(): YYYY-MM-DDTHH:mm:ss.sssZ
toISOString(d) ==
    Digits(d.y, 4) \o <<"-">> \o Digits(d.mo, 2) \o <<"-">> \o Digits(d.d, 2)
    \o <<"T">> \o Digits(d.h, 2) \o <<":">> \o Digits(d.mi, 2) \o <<":">>
    \o Digits(d.s, 2) \o <<".">> \o Digits(d.ms, 3) \o <<"Z">>

\* if (!date) return ''; return date.toISOString().replace(/[:.]/g, '-')
formatDate(date) ==
    IF date = NoDate THEN <<>>
    ELSE LET iso == toISOString(date[1]) IN
         [k \in 1..Len(iso) |-> IF iso[k] \in {":", "."} THEN "-" ELSE iso[k]]

----------------------------------------------------------------------------
(* createEMLContent, createVCardContent, createICalContent: a text is the  *)
(* sequence of its characters                                               *)

CRLF ==
    <<"\r", "\n">>
HdrFrom ==
    <<"F", "r", "o", "m", ":", " ">>
HdrTo ==
    <<"T", "o", ":", " ">>
HdrSubject ==
    <<"S", "u", "b", "j", "e", "c", "t", ":", " ">>
HdrDate ==
    <<"D", "a", "t", "e", ":", " ">>
MimeVersion ==
    <<"M", "I", "M", "E", "-", "V", "e", "r", "s", "i", "o", "n", ":", " ",
      "1", ".", "0">>
MultipartMixed ==
    <<"C", "o", "n", "t", "e", "n", "t", "-", "T", "y", "p", "e", ":", " ",
      "m", "u", "l", "t", "i", "p", "a", "r", "t", "/", "m", "i", "x", "e",
      "d", ";", " ", "b", "o", "u", "n", "d", "a", "r", "y", "=", "\"">>
TextHtml ==
    <<"C", "o", "n", "t", "e", "n", "t", "-", "T", "y", "p", "e", ":", " ",
      "t", "e", "x", "t", "/", "h", "t", "m", "l", ";", " ", "c", "h", "a",
      "r", "s", "e", "t", "=", "u", "t", "f", "-", "8">>
TextPlainCharset ==
    <<"C", "o", "n", "t", "e", "n", "t", "-", "T", "y", "p", "e", ":", " ",
      "t", "e", "x", "t", "/", "p", "l", "a", "i", "n", ";", " ", "c", "h",
      "a", "r", "s", "e", "t", "=", "u", "t", "f", "-", "8">>
XMailer ==
    <<"X", "-", "M", "a", "i", "l", "e", "r", ":", " ", "p", "s", "t", "-",
      "e", "x", "t", "r", "a", "c", "t", "o", "r">>
TagHtml ==
    <<"<", "h", "t", "m", "l">>
TagBody ==
    <<"<", "b", "o", "d", "y">>
HdrContentType ==
    <<"C", "o", "n", "t", "e", "n", "t", "-", "T", "y", "p", "e", ":", " ">>
HdrDisposition ==
    <<"C", "o", "n", "t", "e", "n", "t", "-", "D", "i", "s", "p", "o", "s",
      "i", "t", "i", "o", "n", ":", " ", "a", "t", "t", "a", "c", "h", "m",
      "e", "n", "t", ";", " ", "f", "i", "l", "e", "n", "a", "m", "e", "=",
      "\"">>
HdrBase64 ==
    <<"C", "o", "n", "t", "e", "n", "t", "-", "T", "r", "a", "n", "s", "f",
      "e", "r", "-", "E", "n", "c", "o", "d", "i", "n", "g", ":", " ", "b",
      "a", "s", "e", "6", "4">>
BoundaryPrefix ==
    <<"b", "o", "u", "n", "d", "a", "r", "y", "_">>
BeginVCard ==
    <<"B", "E", "G", "I", "N", ":", "V", "C", "A", "R", "D">>
VCardVersion ==
    <<"V", "E", "R", "S", "I", "O", "N", ":", "3", ".", "0">>
VCardFN ==
    <<"F", "N", ":">>
VCardEmail ==
    <<"E", "M", "A", "I", "L", ":">>
VCardWork ==
    <<"T", "E", "L", ";", "T", "Y", "P", "E", "=", "W", "O", "R", "K", ":">>
VCardCell ==
    <<"T", "E", "L", ";", "T", "Y", "P", "E", "=", "C", "E", "L", "L", ":">>
VCardHome ==
    <<"T", "E", "L", ";", "T", "Y", "P", "E", "=", "H", "O", "M", "E", ":">>
VCardAdr ==
    <<"A", "D", "R", ":", ";", ";">>
VCardOrg ==
    <<"O", "R", "G", ":">>
VCardTitle ==
    <<"T", "I", "T", "L", "E", ":">>
EndVCard ==
    <<"E", "N", "D", ":", "V", "C", "A", "R", "D">>
BeginVCalendar ==
    <<"B", "E", "G", "I", "N", ":", "V", "C", "A", "L", "E", "N", "D", "A",
      "R">>
VCalVersion ==
    <<"V", "E", "R", "S", "I", "O", "N", ":", "2", ".", "0">>
BeginVEvent ==
    <<"B", "E", "G", "I", "N", ":", "V", "E", "V", "E", "N", "T">>
VSummary ==
    <<"S", "U", "M", "M", "A", "R", "Y", ":">>
VLocation ==
    <<"L", "O", "C", "A", "T", "I", "O", "N", ":">>
VDtStart ==
    <<"D", "T", "S", "T", "A", "R", "T", ":">>
VDtEnd ==
    <<"D", "T", "E", "N", "D", ":">>
VDescription ==
    <<"D", "E", "S", "C", "R", "I", "P", "T", "I", "O", "N", ":">>
EndVEvent ==
    <<"E", "N", "D", ":", "V", "E", "V", "E", "N", "T">>
EndVCalendar ==
    <<"E", "N", "D", ":", "V", "C", "A", "L", "E", "N", "D", "A", "R">>

\* list.join(sep)
RECURSIVE JoinWith(_, _)
JoinWith(list, sep) ==
    IF list = <<>> THEN <<>>
    ELSE IF Len(list) = 1 THEN list[1]
    ELSE list[1] \o sep \o JoinWith(Tail(list), sep)

\* s.includes(sub)
Includes(str, sub) ==
    \E k \in 1..(Len(str) - Len(sub) + 1) : SubSeq(str, k, k + Len(sub) - 1) = sub

\* s.replace(/"/g, '')
RECURSIVE WithoutQuotes(_)
WithoutQuotes(str) ==
    IF str = <<>> THEN <<>>
    ELSE (IF Head(str) = "\"" THEN <<>> ELSE <<Head(str)>>) \o WithoutQuotes(Tail(str))

DayNames == <<<<"S", "u", "n">>, <<"M", "o", "n">>, <<"T", "u", "e">>,
              <<"W", "e", "d">>, <<"T", "h", "u">>, <<"F", "r", "i">>,
              <<"S", "a", "t">>>>
MonthNames == <<<<"J", "a", "n">>, <<"F", "e", "b">>, <<"M", "a", "r">>,
                <<"A", "p", "r">>, <<"M", "a", "y">>, <<"J", "u", "n">>,
                <<"J", "u", "l">>, <<"A", "u", "g">>, <<"S", "e", "p">>,
                <<"O", "c", "t">>, <<"N", "o", "v">>, <<"D", "e", "c">>>>

\* The day of the week of a date, 0 for Sunday
DayOfWeek(d) ==
    LET y == IF d.mo < 3 THEN d.y - 1 ELSE d.y
        t == <<0, 3, 2, 5, 0, 3, 5, 1, 4, 6, 2, 4>>
    IN  (y + (y \div 4) - (y \div 100) + (y \div 400) + t[d.mo] + d.d) % 7

\* date.toUTCString(): Tue, 02 Jan 2024 03:04:05 GMT
toUTCString(d) ==
    DayNames[DayOfWeek(d) + 1] \o <<",", " ">> \o Digits(d.d, 2) \o <<" ">>
    \o MonthNames[d.mo] \o <<" ">> \o Digits(d.y, 4) \o <<" ">>
    \o Digits(d.h, 2) \o <<":">> \o Digits(d.mi, 2) \o <<":">> \o Digits(d.s, 2)
    \o <<" ", "G", "M", "T">>

\* buffer.length
RECURSIVE ByteLength(_)
ByteLength(data) ==
    IF data = <<>> THEN 0 ELSE Head(data).len + ByteLength(Tail(data))

\* data.toString('base64'): four characters for every three bytes begun; the
\* bytes being abstract, so are the characters
Base64(data) == [k \in 1..(4 * ((ByteLength(data) + 2) \div 3)) |-> "#"]

\* text.match(/.{1,76}/g)?.join('\r\n') || ''
RECURSIVE Wrap76(_)
Wrap76(text) ==
    IF Len(text) <= 76 THEN text
    ELSE SubSeq(text, 1, 76) \o CRLF \o Wrap76(SubSeq(text, 77, Len(text)))

\* 'boundary_' + Math.random().toString(36).substr(2)
Boundaries == {BoundaryPrefix \o <<"k", "3", "f">>, BoundaryPrefix \o <<"9", "x", "z">>}

\* What new Date() may answer
Clock == {Date(2025, 3, 1, 10, 0, 0, 0), Date(2025, 3, 1, 10, 0, 1, 0)}

\* (body.includes('<html') || body.includes('<body')) ? text/html : text/plain
BodyType(body) ==
    IF Includes(body, TagHtml) \/ Includes(body, TagBody)
    THEN TextHtml ELSE TextPlainCharset

\* const headers = [...].filter(Boolean).join('\r\n')
Headers(message, boundary, now) ==
    LET date == OrElse(message.sentDate, OrElse(message.receivedDate, now)) IN
    JoinWith(NonEmpty(<<
        HdrFrom \o message.sender,
        HdrTo \o JoinWith(message.recipients, <<",", " ">>),
        HdrSubject \o message.subject,
        HdrDate \o toUTCString(date[1]),
        MimeVersion,
        IF Len(message.attachments) > 0
        THEN MultipartMixed \o boundary \o <<"\"">>
        ELSE BodyType(message.body),
        XMailer,
        message.headers>>), CRLF)

\* Mutant of AttachmentPart: the part is pushed without its boundary line
AttachmentPartUnopened(attachment, boundary) ==
    <<HdrContentType \o OrElse(attachment.contentType, OctetStream),
      HdrDisposition \o WithoutQuotes(attachment.filename) \o <<"\"">>,
      HdrBase64,
      <<>>,
      Wrap76(Base64(attachment.data))>>

\* The six entries parts.push adds for one attachment
AttachmentPart(attachment, boundary) ==
    <<<<"-", "-">> \o boundary,
      HdrContentType \o OrElse(attachment.contentType, OctetStream),
      HdrDisposition \o WithoutQuotes(attachment.filename) \o <<"\"">>,
      HdrBase64,
      <<>>,
      Wrap76(Base64(attachment.data))>>

RECURSIVE AttachmentParts(_, _)
AttachmentParts(attachments, boundary) ==
    IF attachments = <<>> THEN <<>>
    ELSE AttachmentPart(Head(attachments), boundary)
         \o AttachmentParts(Tail(attachments), boundary)

\* boundary is what Math.random() gave, now what new Date() gave
createEMLContent(message, boundary, now) ==
    LET headers == Headers(message, boundary, now) IN
    IF Len(message.attachments) = 0
    THEN headers \o CRLF \o CRLF \o message.body
    ELSE JoinWith(<<headers, <<>>, <<"-", "-">> \o boundary,
                    BodyType(message.body), <<>>, message.body>>
                  \o AttachmentParts(message.attachments, boundary)
                  \o <<<<"-", "-">> \o boundary \o <<"-", "-">>>>, CRLF)

\* field ? `LABEL:${field}` : ''
Labelled(label, field) == IF field = <<>> THEN <<>> ELSE label \o field

createVCardContent(contact) ==
    JoinWith(NonEmpty(<<
        BeginVCard,
        VCardVersion,
        VCardFN \o contact.fullName,
        Labelled(VCardEmail, contact.email),
        Labelled(VCardWork, contact.businessPhone),
        Labelled(VCardCell, contact.mobilePhone),
        Labelled(VCardHome, contact.homePhone),
        Labelled(VCardAdr, contact.address),
        Labelled(VCardOrg, contact.company),
        Labelled(VCardTitle, contact.jobTitle),
        EndVCard>>), CRLF)

createICalContent(appointment) ==
    JoinWith(NonEmpty(<<
        BeginVCalendar,
        VCalVersion,
        BeginVEvent,
        VSummary \o appointment.subject,
        VLocation \o appointment.location,
        IF appointment.startTime = NoDate THEN <<>>
        ELSE VDtStart \o formatDate(appointment.startTime),
        IF appointment.endTime = NoDate THEN <<>>
        ELSE VDtEnd \o formatDate(appointment.endTime),
        VDescription \o appointment.body,
        EndVEvent,
        EndVCalendar>>), CRLF)

----------------------------------------------------------------------------
(* exportToFiles: paths and positions *)

DirEmails == <<"E", "m", "a", "i", "l", "s">>
DirAttachments == <<"A", "t", "t", "a", "c", "h", "m", "e", "n", "t", "s">>
DirContacts == <<"C", "o", "n", "t", "a", "c", "t", "s">>
DirCalendar == <<"C", "a", "l", "e", "n", "d", "a", "r">>
ExtEml == <<".", "e", "m", "l">>
ExtVcf == <<".", "v", "c", "f">>
ExtIcs == <<".", "i", "c", "s">>

\* path.join(dir, segment): a path is the sequence of its segments
Join(dir, segment) == IF segment = <<>> THEN dir ELSE Append(dir, segment)

Pos(at, i, j) == [at |-> at, i |-> i, j |-> j]

\* The filesystem operation exportToFiles awaits at position pos of frame f
OpAt(f) ==
    LET data == f.data
        emailsPath == Join(f.folderPath, DirEmails)
        i == f.pos.i
        j == f.pos.j
        at == f.pos.at
    IN  CASE at = "folderDir" ->
               [kind |-> "mkdir", at |-> at, path |-> f.folderPath]
          [] at = "emailsDir" ->
               [kind |-> "mkdir", at |-> at, path |-> emailsPath]
          [] at = "eml" ->
               [kind |-> "writeFile", at |-> at,
                path |-> Join(emailsPath,
                    sanitizeFilename(formatDate(data.messages[i].sentDate) \o <<"_">>
                                     \o data.messages[i].subject \o ExtEml))]
          [] at = "attDir" ->
               [kind |-> "mkdir", at |-> at,
                path |-> Join(Join(emailsPath, DirAttachments),
                              sanitizeFilename(data.messages[i].subject))]
          [] at = "att" ->
               [kind |-> "writeFile", at |-> at,
                path |-> Join(Join(Join(emailsPath, DirAttachments),
                                   sanitizeFilename(data.messages[i].subject)),
                              sanitizeFilename(data.messages[i].attachments[j].filename))]
          [] at = "contactsDir" ->
               [kind |-> "mkdir", at |-> at, path |-> Join(f.folderPath, DirContacts)]
          [] at = "vcf" ->
               [kind |-> "writeFile", at |-> at,
                path |-> Join(Join(f.folderPath, DirContacts),
                              sanitizeFilename(data.contacts[i].fullName \o ExtVcf))]
          [] at = "calendarDir" ->
               [kind |-> "mkdir", at |-> at, path |-> Join(f.folderPath, DirCalendar)]
          [] at = "ics" ->
               [kind |-> "writeFile", at |-> at,
                path |-> Join(Join(f.folderPath, DirCalendar),
                    sanitizeFilename(formatDate(data.appointments[i].startTime)
                                     \o <<"_">> \o data.appointments[i].subject
                                     \o ExtIcs))]

\* What the writeFile at position pos of frame f is given: createEMLContent
\* with the boundary and the time it drew, the attachment's buffer,
\* createVCardContent, createICalContent
ContentAt(f, boundary, now) ==
    LET at == f.pos.at
        i == f.pos.i
    IN  CASE at = "eml" -> createEMLContent(f.data.messages[i], boundary, now)
          [] at = "att" -> f.data.messages[i].attachments[f.pos.j].data
          [] at = "vcf" -> createVCardContent(f.data.contacts[i])
          [] at = "ics" -> createICalContent(f.data.appointments[i])
          [] OTHER -> <<>>

\* The operation with what it writes
OpWith(f, boundary, now) ==
    [kind |-> OpAt(f).kind, at |-> OpAt(f).at, path |-> OpAt(f).path,
     content |-> ContentAt(f, boundary, now)]

Goto(pos) == [throw |-> FALSE, pos |-> pos]

Throw == [throw |-> TRUE, pos |-> Pos("return", 0, 0)]

\* for (const subfolder of data.subfolders), then the end of the try block
StartSubfolders(data) ==
    IF Len(data.subfolders) > 0 THEN Goto(Pos("sub", 1, 0))
    ELSE Goto(Pos("return", 0, 0))

\* if (data.appointments.length > 0)
StartAppointments(data) ==
    IF Len(data.appointments) > 0 THEN Goto(Pos("calendarDir", 0, 0))
    ELSE StartSubfolders(data)

\* if (data.contacts.length > 0)
StartContacts(data) ==
    IF Len(data.contacts) > 0 THEN Goto(Pos("contactsDir", 0, 0))
    ELSE StartAppointments(data)

\* if (data.messages.length > 0)
StartMessages(data) ==
    IF Len(data.messages) > 0 THEN Goto(Pos("emailsDir", 0, 0))
    ELSE StartContacts(data)

\* The next turn of for (const message of data.messages)
NextMessage(data, i) ==
    IF i < Len(data.messages) THEN Goto(Pos("eml", i + 1, 0))
    ELSE StartContacts(data)

\* Mutant of MkdirFailed: the failure is logged and the export goes on
MkdirFailedGoesOn(data, pos) ==
    CASE pos.at = "attDir" -> NextMessage(data, pos.i)
      [] pos.at = "folderDir" -> StartMessages(data)
      [] pos.at = "emailsDir" -> StartContacts(data)
      [] pos.at = "contactsDir" -> StartAppointments(data)
      [] pos.at = "calendarDir" -> StartSubfolders(data)

\* A rejected mkdir: inside the message's try it reaches catch (messageError),
\* anywhere else the function's catch, which rethrows
MkdirFailed(data, pos) ==
    IF pos.at = "attDir" THEN NextMessage(data, pos.i) ELSE Throw

\* A rejected writeFile: catch (attachError) and catch (messageError) go on
\* with the next attachment or message; a contact's and an appointment's write
\* is inside no try of its own
WriteFailed(data, pos) ==
    CASE pos.at = "eml" -> NextMessage(data, pos.i)
      [] pos.at = "att" ->
            IF pos.j < Len(data.messages[pos.i].attachments)
            THEN Goto(Pos("att", pos.i, pos.j + 1))
            ELSE NextMessage(data, pos.i)
      [] pos.at \in {"vcf", "ics"} -> Throw

\* Where exportToFiles goes on once the awaited operation at pos fulfilled
Fulfilled(data, pos) ==
    CASE pos.at = "folderDir" -> StartMessages(data)
      [] pos.at = "emailsDir" -> Goto(Pos("eml", 1, 0))
      [] pos.at = "eml" ->
            IF Len(data.messages[pos.i].attachments) > 0
            THEN Goto(Pos("attDir", pos.i, 0))
            ELSE NextMessage(data, pos.i)
      [] pos.at = "attDir" -> Goto(Pos("att", pos.i, 1))
      [] pos.at = "att" ->
            IF pos.j < Len(data.messages[pos.i].attachments)
            THEN Goto(Pos("att", pos.i, pos.j + 1))
            ELSE NextMessage(data, pos.i)
      [] pos.at = "contactsDir" -> Goto(Pos("vcf", 1, 0))
      [] pos.at = "vcf" ->
            IF pos.i < Len(data.contacts) THEN Goto(Pos("vcf", pos.i + 1, 0))
            ELSE StartAppointments(data)
      [] pos.at = "calendarDir" -> Goto(Pos("ics", 1, 0))
      [] pos.at = "ics" ->
            IF pos.i < Len(data.appointments) THEN Goto(Pos("ics", pos.i + 1, 0))
            ELSE StartSubfolders(data)

\* Where exportToFiles goes on once the awaited operation op settled
Resumed(data, pos, op, ok) ==
    IF ok THEN Fulfilled(data, pos)
    ELSE IF op.kind = "mkdir" THEN MkdirFailed(data, pos)
    ELSE WriteFailed(data, pos)

\* exportToFiles(data, basePath) is called
ExportFrame(data, basePath) ==
    [data |-> data,
     folderPath |-> Join(basePath, sanitizeFilename(data.name)),
     pos |-> Pos("folderDir", 0, 0),
     awaiting |-> <<>>]

XTop == xstack[Len(xstack)]

XSetTop(f) == xstack' = [xstack EXCEPT ![Len(xstack)] = f]

\* Mutant of Awaited: the operation is started and not awaited
NotAwaited(f, op) ==
    LET r == Fulfilled(f.data, f.pos) IN [f EXCEPT !.pos = r.pos]

\* await mkdir(...), await writeFile(...): the frame suspends on op
Awaited(f, op) == [f EXCEPT !.awaiting = <<op>>]

At(at) == xstack # <<>> /\ XTop.awaiting = <<>> /\ XTop.pos.at = at

\* The top frame starts the operation of its position and awaits it
StartOp ==
    /\ \E boundary \in Boundaries, now \in Clock :
         LET op == OpWith(XTop, boundary, now) IN
         /\ inflight' = inflight \cup {op}
         /\ XSetTop(Awaited(XTop, op))
    /\ UNCHANGED <<xresult, exporting, fslog, drainVars, firstRun, extractVars, batch>>

\* await mkdir(folderPath, { recursive: true })
MkdirFolder == At("folderDir") /\ StartOp

\* await mkdir(emailsPath, { recursive: true })
MkdirEmails == At("emailsDir") /\ StartOp

\* await writeFile(emailPath, createEMLContent(message))
WriteEml == At("eml") /\ StartOp

\* await mkdir(attachmentsPath, { recursive: true })
MkdirAttachments == At("attDir") /\ StartOp

\* await writeFile(attachmentPath, attachment.data)
WriteAttachment == At("att") /\ StartOp

\* await mkdir(contactsPath, { recursive: true })
MkdirContacts == At("contactsDir") /\ StartOp

\* await writeFile(path.join(contactsPath, filename), createVCardContent(contact))
WriteVcf == At("vcf") /\ StartOp

\* await mkdir(calendarPath, { recursive: true })
MkdirCalendar == At("calendarDir") /\ StartOp

\* await writeFile(path.join(calendarPath, filename), createICalContent(appointment))
WriteIcs == At("ics") /\ StartOp

IsExportOp(op) ==
    op.at \in {"folderDir", "emailsDir", "eml", "attDir", "att", "contactsDir",
               "vcf", "calendarDir", "ics"}

\* An operation exportToFiles started settles; if the top frame awaits it, the
\* frame resumes: with the next position, or by throwing through every
\* caller's catch, each of which rethrows
SettleOp ==
    /\ \E op \in inflight, ok \in BOOLEAN :
         /\ IsExportOp(op)
         /\ inflight' = inflight \ {op}
         /\ fslog' = Append(fslog, [op |-> op, ok |-> ok])
         /\ IF xstack # <<>> /\ XTop.awaiting = <<op>>
            THEN LET r == Resumed(XTop.data, XTop.pos, op, ok) IN
                 IF r.throw
                 THEN xstack' = <<>> /\ xresult' = "raise"
                 ELSE /\ XSetTop([XTop EXCEPT !.pos = r.pos, !.awaiting = <<>>])
                      /\ UNCHANGED xresult
            ELSE UNCHANGED <<xstack, xresult>>
    /\ UNCHANGED <<exporting, drainVars, firstRun, extractVars, batch>>

\* await exportToFiles(subfolder, folderPath)
CallSubfolder ==
    /\ At("sub")
    /\ XTop.pos.j = 0
    /\ xstack' = Append([xstack EXCEPT ![Len(xstack)].pos.j = 1],
                        ExportFrame(XTop.data.subfolders[XTop.pos.i], XTop.folderPath))
    /\ UNCHANGED <<xresult, exporting, inflight, fslog, drainVars, firstRun, extractVars, batch>>

\* The end of the try block: the promise fulfils and the caller's loop goes on
ReturnExport ==
    /\ At("return")
    /\ IF Len(xstack) = 1
       THEN xstack' = <<>> /\ xresult' = "ok"
       ELSE LET parent == xstack[Len(xstack) - 1]
                next == IF parent.pos.i < Len(parent.data.subfolders)
                        THEN Pos("sub", parent.pos.i + 1, 0)
                        ELSE Pos("return", 0, 0)
            IN  /\ xstack' = Append(SubSeq(xstack, 1, Len(xstack) - 2),
                                    [parent EXCEPT !.pos = next])
                /\ UNCHANGED xresult
    /\ UNCHANGED <<exporting, inflight, fslog, drainVars, firstRun, extractVars, batch>>

----------------------------------------------------------------------------
(* SpecExport: exportToFiles on every tree of ExportTrees, trees that       *)
(* extractFolder returns and convertOST hands over (pruned, not empty)      *)

OneAttachment == ExtractAttachment(DrainingAttachment, <<>>)
TwoAttachments == ExtractAttachment(DrainingAttachment, OneAttachment)

MsgPlain == MessageRecord(PlainMessage, <<>>)
MsgRich == MessageRecord(RichMessage, OneAttachment)
MsgTwoAtt == MessageRecord(PlainMessage, TwoAttachments)
ContactJane == ContactRecord([displayName |-> JaneDoe])
AppointmentHello == AppointmentRecord([subject |-> Hello, body |-> Hi])

MessageLists ==
    {<<>>, <<MsgPlain>>, <<MsgRich>>, <<MsgTwoAtt>>, <<MsgPlain, MsgPlain>>,
     <<MsgPlain, MsgRich>>, <<MsgRich, MsgPlain>>}
ContactLists == {<<>>, <<ContactJane>>, <<ContactJane, ContactJane>>}
AppointmentLists ==
    {<<>>, <<AppointmentHello>>, <<AppointmentHello, AppointmentHello>>}

RECURSIVE AttachmentCount(_)
AttachmentCount(messages) ==
    IF messages = <<>> THEN 0
    ELSE Len(Head(messages).attachments) + AttachmentCount(Tail(messages))

\* The records of a tree, attachments included
RECURSIVE Weight(_)
RECURSIVE WeightAll(_)
Weight(data) ==
    Len(data.messages) + AttachmentCount(data.messages)
    + Len(data.contacts) + Len(data.appointments) + WeightAll(data.subfolders)
WeightAll(list) ==
    IF list = <<>> THEN 0 ELSE Weight(Head(list)) + WeightAll(Tail(list))

Folders(name, subs) ==
    {[name |-> name, messages |-> m, contacts |-> c, appointments |-> a,
      subfolders |-> sub] :
        m \in MessageLists, c \in ContactLists, a \in AppointmentLists,
        sub \in subs}

Fits(S) == {d \in S : Weight(d) >= 1 /\ Weight(d) <= MaxRecords}

Leaves == Fits(Folders(Inbox, {<<>>}))

Inner == Leaves \cup Fits(Folders(Inbox, {<<l>> : l \in Leaves}))

\* Names as the file holds them: folder.displayName, item.displayName and
\* item.subject reach exportToFiles unsanitized (lines 161, 287, 298)
DirtyName == <<"a", "<", ">", ":", "\"", "/", "\\", "|", "?", "*", "b">>
LongName == [i \in 1..(MaxNameLen + 1) |-> IF i = 3 THEN "?" ELSE "x"]
ContactDirty == ContactRecord([displayName |-> DirtyName])
ContactLong == ContactRecord([displayName |-> Take(LongName, MaxNameLen)])
AppointmentDirty == AppointmentRecord([subject |-> DirtyName, body |-> Hi])

DirtyFolders ==
    Fits({[name |-> name, messages |-> m, contacts |-> c, appointments |-> a,
           subfolders |-> <<>>] :
             name \in {DirtyName, LongName}, m \in {<<>>, <<MsgRich>>},
             c \in {<<>>, <<ContactDirty>>, <<ContactLong>>},
             a \in {<<>>, <<AppointmentDirty>>}})

ExportTrees ==
    Fits(Folders(UnnamedFolder,
                 {<<>>} \cup {<<d>> : d \in Inner}
                 \cup {<<d, e>> : d \in Leaves, e \in Leaves}))
    \cup DirtyFolders
    \cup {[name |-> UnnamedFolder, messages |-> <<>>, contacts |-> <<>>,
           appointments |-> <<>>, subfolders |-> <<d>>] : d \in DirtyFolders}

OutputPath == <<<<"o", "u", "t">>>>

InitExport ==
    /\ exporting \in ExportTrees
    /\ xstack = <<ExportFrame(exporting, OutputPath)>>
    /\ xresult = "none"
    /\ inflight = {}
    /\ fslog = <<>>
    /\ firstRun = NoRun
    /\ DrainIdle /\ ExtractIdle /\ BatchIdle

NextExport ==
    \/ MkdirFolder \/ MkdirEmails \/ WriteEml \/ MkdirAttachments
    \/ WriteAttachment \/ MkdirContacts \/ WriteVcf \/ MkdirCalendar
    \/ WriteIcs \/ SettleOp \/ CallSubfolder \/ ReturnExport

SpecExport == InitExport /\ [][NextExport]_vars

----------------------------------------------------------------------------
(* SpecTwice: exportToFiles on a tree, and once it fulfilled with every     *)
(* operation fulfilled, exportToFiles on the same tree again, the target    *)
(* being empty again                                                         *)

AllFulfilled(log) == \A k \in DOMAIN log : log[k].ok

\* The files a run leaves: for every path written, what was written last
FilesOf(log) ==
    {[path |-> log[k].op.path, at |-> log[k].op.at, content |-> log[k].op.content] :
        k \in {n \in DOMAIN log :
                /\ log[n].ok
                /\ log[n].op.kind = "writeFile"
                /\ \A later \in (n + 1)..Len(log) :
                     ~(/\ log[later].ok
                       /\ log[later].op.kind = "writeFile"
                       /\ log[later].op.path = log[n].op.path)}}

RunAgain ==
    /\ ~firstRun.done
    /\ xstack = <<>>
    /\ xresult = "ok"
    /\ inflight = {}
    /\ AllFulfilled(fslog)
    /\ firstRun' = [done |-> TRUE, files |-> FilesOf(fslog)]
    /\ xstack' = <<ExportFrame(exporting, OutputPath)>>
    /\ xresult' = "none"
    /\ fslog' = <<>>
    /\ UNCHANGED <<exporting, inflight, drainVars, extractVars, batch>>

InitTwice == InitExport

NextTwice == NextExport \/ RunAgain

SpecTwice == InitTwice /\ [][NextTwice]_vars

\* text with the random part of every occurrence of the boundary token left out
RECURSIVE Mask(_, _)
Mask(text, boundary) ==
    IF text = <<>> THEN <<>>
    ELSE IF StartsWith(text, boundary)
         THEN BoundaryPrefix \o Mask(SubSeq(text, Len(boundary) + 1, Len(text)), boundary)
         ELSE <<Head(text)>> \o Mask(Tail(text), boundary)

RECURSIVE MaskAll(_, _)
MaskAll(text, boundaries) ==
    IF boundaries = {} THEN text
    ELSE LET b == CHOOSE x \in boundaries : TRUE IN
         MaskAll(Mask(text, b), boundaries \ {b})

SameButBoundary(f, g) ==
    IF f.at = "eml" /\ g.at = "eml"
    THEN MaskAll(f.content, Boundaries) = MaskAll(g.content, Boundaries)
    ELSE f.content = g.content

\* C12: two runs of exportToFiles on the same tree, each into an empty target
\* and each with every operation fulfilled, leave the same paths, and under
\* every path the same bytes but for the boundary token.
C12_TwoRunsLeaveSameFiles ==
    (/\ firstRun.done
     /\ xstack = <<>>
     /\ xresult = "ok"
     /\ AllFulfilled(fslog))
    => /\ {f.path : f \in firstRun.files} = {g.path : g \in FilesOf(fslog)}
       /\ \A f \in firstRun.files, g \in FilesOf(fslog) :
            f.path = g.path => SameButBoundary(f, g)

----------------------------------------------------------------------------
(* exportToFiles: failures *)

\* The records of one kind in a tree
RECURSIVE TreeCount(_, _)
RECURSIVE TreeCountAll(_, _)
TreeCount(data, field) ==
    Len(data[field]) + TreeCountAll(data.subfolders, field)
TreeCountAll(list, field) ==
    IF list = <<>> THEN 0
    ELSE TreeCount(Head(list), field) + TreeCountAll(Tail(list), field)

Attempts(at) == Cardinality({k \in DOMAIN fslog : fslog[k].op.at = at})

\* C7: when the only operations that fail are writes of message, contact,
\* appointment or attachment files, the export call does not fail and every
\* message, contact and appointment of the tree has had its write attempted.
C7_WriteFailureSkipsOneItem ==
    (/\ xresult # "none"
     /\ \A k \in DOMAIN fslog : ~fslog[k].ok => fslog[k].op.kind = "writeFile")
    => /\ xresult = "ok"
       /\ Attempts("eml") = TreeCount(exporting, "messages")
       /\ Attempts("vcf") = TreeCount(exporting, "contacts")
       /\ Attempts("ics") = TreeCount(exporting, "appointments")

Aborted(k) ==
    /\ k = Len(fslog)
    /\ inflight = {}
    /\ xstack = <<>>
    /\ xresult = "raise"

\* C8 as stated: a failed mkdir, whichever directory it is for, is the last
\* operation of the export, and the export call raises.
C8_AnyMkdirFailureAborts ==
    \A k \in DOMAIN fslog :
        (~fslog[k].ok /\ fslog[k].op.kind = "mkdir") => Aborted(k)

\* C8 amended: a failed mkdir of a folder directory, Emails, Contacts or
\* Calendar, at any depth, is the last operation of the export, and the export
\* call raises; a failed mkdir of Attachments/<subject> is caught with its
\* message: none of that message's attachments is written and the export goes on.
C8_FolderMkdirFailureAborts ==
    \A k \in DOMAIN fslog :
        (~fslog[k].ok /\ fslog[k].op.kind = "mkdir")
        => IF fslog[k].op.at = "attDir"
           THEN /\ k = Len(fslog) => xresult # "raise"
                /\ k < Len(fslog) => fslog[k + 1].op.at # "att"
           ELSE Aborted(k)

\* The Emails directory of a subfolder could not be made, and the call raised
C8_Witness ==
    /\ xresult = "raise"
    /\ \E k \in DOMAIN fslog :
         /\ ~fslog[k].ok
         /\ fslog[k].op.at = "emailsDir"
         /\ Len(fslog[k].op.path) = 4

----------------------------------------------------------------------------
(* processAllOSTFiles and convertOST.  batch.pc is the position; ostFiles, *)
(* idx are the locals of the for loop; attempted and failed record the      *)
(* files convertOST was called for and whether each call raised; error is  *)
(* what the last convertOST call threw ("": nothing).                       *)

UpperCase == <<"A", "B", "C", "D", "E", "F", "G", "H", "I", "J", "K", "L", "M",
               "N", "O", "P", "Q", "R", "S", "T", "U", "V", "W", "X", "Y", "Z">>
LowerCase == <<"a", "b", "c", "d", "e", "f", "g", "h", "i", "j", "k", "l", "m",
               "n", "o", "p", "q", "r", "s", "t", "u", "v", "w", "x", "y", "z">>

\* s.toLowerCase()
toLowerCase(str) ==
    [k \in 1..Len(str) |->
        IF \E u \in 1..26 : UpperCase[u] = str[k]
        THEN LowerCase[CHOOSE u \in 1..26 : UpperCase[u] = str[k]]
        ELSE str[k]]

EndsWith(str, suffix) ==
    /\ Len(str) >= Len(suffix)
    /\ SubSeq(str, Len(str) - Len(suffix) + 1, Len(str)) = suffix

ExtOst == <<".", "o", "s", "t">>

\* files.filter(file => file.toLowerCase().endsWith('.ost'))
RECURSIVE findOSTFiles(_)
findOSTFiles(files) ==
    IF files = <<>> THEN <<>>
    ELSE (IF EndsWith(toLowerCase(Head(files)), ExtOst) THEN <<Head(files)>> ELSE <<>>)
         \o findOSTFiles(Tail(files))

\* path.basename(file, '.ost')
Basename(file, ext) ==
    IF EndsWith(file, ext) THEN SubSeq(file, 1, Len(file) - Len(ext)) ELSE file

OutlookExport == <<"o", "u", "t", "l", "o", "o", "k", "_", "e", "x", "p", "o", "r", "t">>

outputBaseDir == <<OutlookExport>>

\* path.join(outputBaseDir, path.basename(ostFile, '.ost'))
OutputDir(ostFile) == Join(outputBaseDir, Basename(ostFile, ExtOst))

FileNames ==
    {<<"a", ".", "o", "s", "t">>, <<"B", ".", "O", "S", "T">>,
     <<"c", ".", "t", "x", "t">>}

\* What readdir may answer: listings of at most MaxFiles distinct names
Listings ==
    {l \in SeqsUpTo(FileNames, MaxFiles) :
        \A x, y \in 1..Len(l) : x # y => l[x] # l[y]}

BatchOp(at, path) == [kind |-> IF at = "readdir" THEN "readdir" ELSE "mkdir",
                      at |-> at, path |-> path, content |-> <<>>]

\* Mutant of AfterConvert: the loop's catch rethrows, and the outer catch ends
\* the batch
AfterConvertRethrows(b, failed) ==
    [b EXCEPT !.failed = Append(@, failed),
              !.idx = @ + 1,
              !.pc = IF failed \/ b.idx >= Len(b.ostFiles) THEN "done" ELSE "file"]

\* The for loop's try/catch around await convertOST(...): either way the loop
\* goes on with the next file
AfterConvert(b, failed) ==
    [b EXCEPT !.failed = Append(@, failed),
              !.idx = @ + 1,
              !.pc = IF b.idx >= Len(b.ostFiles) THEN "done" ELSE "file"]

\* The messages of the errors convertOST throws itself
FileNotFound == "OST-Datei nicht gefunden"
NoRootFolder == "Konnte Root-Ordner nicht finden"
NoData == "Keine Daten gefunden"

\* Mutant of NoRecords: the check is dropped
NoRecordsNever(folderData) == Len(folderData.messages) < 0

\* if (folderData.messages.length === 0 && ... && folderData.subfolders.length === 0)
NoRecords(folderData) ==
    /\ Len(folderData.messages) = 0
    /\ Len(folderData.contacts) = 0
    /\ Len(folderData.appointments) = 0
    /\ Len(folderData.subfolders) = 0

\* await mkdir(outputBaseDir, { recursive: true })
MkdirBase ==
    /\ batch.pc = "start"
    /\ inflight' = inflight \cup {BatchOp("baseDir", outputBaseDir)}
    /\ batch' = [batch EXCEPT !.pc = "baseDir"]
    /\ UNCHANGED <<xstack, xresult, exporting, fslog, drainVars, firstRun, extractVars>>

\* The mkdir settles; then await findOSTFiles(projectDir) starts readdir.
\* A failure reaches the outer catch, which ends the batch
BaseSettles ==
    /\ batch.pc = "baseDir"
    /\ BatchOp("baseDir", outputBaseDir) \in inflight
    /\ \E ok \in BOOLEAN :
         IF ok
         THEN /\ inflight' = (inflight \ {BatchOp("baseDir", outputBaseDir)})
                             \cup {BatchOp("readdir", <<>>)}
              /\ batch' = [batch EXCEPT !.pc = "readdir"]
         ELSE /\ inflight' = inflight \ {BatchOp("baseDir", outputBaseDir)}
              /\ batch' = [batch EXCEPT !.pc = "done"]
    /\ UNCHANGED <<xstack, xresult, exporting, fslog, drainVars, firstRun, extractVars>>

\* readdir settles: the filter, the empty check, the first turn of the loop
ReaddirSettles ==
    /\ batch.pc = "readdir"
    /\ BatchOp("readdir", <<>>) \in inflight
    /\ inflight' = inflight \ {BatchOp("readdir", <<>>)}
    /\ \/ batch' = [batch EXCEPT !.pc = "done"]       \* readdir rejects
       \/ \E files \in Listings :
            LET ost == findOSTFiles(files) IN
            batch' = [batch EXCEPT !.ostFiles = ost, !.idx = 1,
                                   !.pc = IF ost = <<>> THEN "done" ELSE "file"]
    /\ UNCHANGED <<xstack, xresult, exporting, fslog, drainVars, firstRun, extractVars>>

CurrentFile == batch.ostFiles[batch.idx]

\* convertOST is called: existsSync, then await mkdir(outputPath)
ConvertStart ==
    /\ batch.pc = "file"
    /\ \/ /\ batch' = AfterConvert([batch EXCEPT !.attempted = Append(@, CurrentFile),
                                                 !.error = FileNotFound],
                                   TRUE)
          /\ UNCHANGED inflight
       \/ /\ batch' = [batch EXCEPT !.attempted = Append(@, CurrentFile),
                                    !.pc = "outputDir"]
          /\ inflight' = inflight \cup {BatchOp("outputDir", OutputDir(CurrentFile))}
    /\ UNCHANGED <<xstack, xresult, exporting, fslog, drainVars, firstRun, extractVars>>

\* The mkdir settles; new PSTFile(ostPath), getRootFolder(), and
\* extractFolder(rootFolder) is called
OpenFile ==
    /\ batch.pc = "outputDir"
    /\ BatchOp("outputDir", OutputDir(CurrentFile)) \in inflight
    /\ inflight' = inflight \ {BatchOp("outputDir", OutputDir(CurrentFile))}
    /\ \/ /\ \E e \in {"mkdir", "PSTFile", NoRootFolder} :
               batch' = AfterConvert([batch EXCEPT !.error = e], TRUE)
          /\ UNCHANGED extractVars
       \/ /\ batch' = [batch EXCEPT !.pc = "extracting"]
          /\ stack' = <<NewFrame>>
          /\ extracted' = [kind |-> "none", data |-> EmptyFolder]
          /\ budget' = BatchObjects
    /\ UNCHANGED <<xstack, xresult, exporting, fslog, drainVars, firstRun>>

\* extractFolder settled: the zero-records check, then exportToFiles is called
AfterExtract ==
    /\ batch.pc = "extracting"
    /\ stack = <<>>
    /\ extracted.kind # "none"
    /\ IF extracted.kind = "raise" \/ NoRecords(extracted.data)
       THEN /\ batch' = AfterConvert(
                    [batch EXCEPT !.error = IF extracted.kind = "raise"
                                            THEN "extractFolder" ELSE NoData],
                    TRUE)
            /\ UNCHANGED exportVars
       ELSE /\ batch' = [batch EXCEPT !.pc = "exporting"]
            /\ exporting' = extracted.data
            /\ xstack' = <<ExportFrame(extracted.data, OutputDir(CurrentFile))>>
            /\ xresult' = "none"
            /\ fslog' = <<>>
            /\ UNCHANGED inflight
    \* folderData lives on only as the argument of exportToFiles
    /\ extracted' = [kind |-> "none", data |-> EmptyFolder]
    /\ budget' = 0
    /\ UNCHANGED <<drainVars, firstRun, stack>>

\* exportToFiles settled: convertOST returns or rethrows
AfterExport ==
    /\ batch.pc = "exporting"
    /\ xstack = <<>>
    /\ xresult # "none"
    /\ batch' = AfterConvert(
            [batch EXCEPT !.error = IF xresult = "raise" THEN "exportToFiles" ELSE ""],
            xresult = "raise")
    \* convertOST's locals end with the call
    /\ exporting' = EmptyFolder
    /\ xresult' = "none"
    /\ fslog' = <<>>
    /\ UNCHANGED <<drainVars, firstRun, extractVars, xstack, inflight>>

Init ==
    /\ batch = [pc |-> "start", ostFiles |-> <<>>, idx |-> 0, attempted |-> <<>>,
                failed |-> <<>>, error |-> ""]
    /\ DrainIdle /\ ExtractIdle /\ ExportIdle

Next ==
    \/ MkdirBase \/ BaseSettles \/ ReaddirSettles \/ ConvertStart \/ OpenFile
    \/ AfterExtract \/ AfterExport
    \/ EnterFolder \/ FirstChild \/ SkipUnknown \/ ClassRaises \/ VisitNote
    \/ AttachmentStep \/ CountRaises \/ AddMessage \/ AddContact \/ AddAppointment
    \/ VisitOther \/ NextChild \/ ListSubfolders \/ CallChild \/ ReturnFolder
    \/ MkdirFolder \/ MkdirEmails \/ WriteEml \/ MkdirAttachments
    \/ WriteAttachment \/ MkdirContacts \/ WriteVcf \/ MkdirCalendar
    \/ WriteIcs \/ SettleOp \/ CallSubfolder \/ ReturnExport

Spec == Init /\ [][Next]_vars

----------------------------------------------------------------------------
(* The batch: failures of one file, and the order of the operations *)

IsPrefix(p, q) == Len(p) <= Len(q) /\ SubSeq(q, 1, Len(p)) = p

\* C9: whether or not convertOST raised for a file, processAllOSTFiles goes on
\* to the next: the files attempted are always the first ones of the list, in
\* its order, and the batch ends, fulfilled, only with every file attempted.
C9_FailedFileDoesNotStopBatch ==
    /\ IsPrefix(batch.attempted, batch.ostFiles)
    /\ Len(batch.failed) <= Len(batch.attempted)
    /\ batch.pc = "file"
       => /\ batch.idx <= Len(batch.ostFiles)
          /\ Len(batch.attempted) = batch.idx - 1
          /\ Len(batch.failed) = batch.idx - 1
    /\ (batch.pc = "done" /\ batch.ostFiles # <<>>)
       => /\ batch.attempted = batch.ostFiles
          /\ Len(batch.failed) = Len(batch.ostFiles)

\* C9: the first of two files failed, the second was converted, the batch ended
C9_Witness ==
    /\ batch.pc = "done"
    /\ Len(batch.ostFiles) = 2
    /\ batch.attempted = batch.ostFiles
    /\ batch.failed = <<TRUE, FALSE>>

\* C10: at most one filesystem operation is in flight; it is the one the
\* innermost exportToFiles call (or the driver) awaits, for the file at hand;
\* nothing is extracted or exported while the driver is between two files.
C10_OneOperationAtATime ==
    /\ Cardinality(inflight) <= 1
    /\ inflight # {} => stack = <<>>
    /\ \A op \in inflight :
         /\ IsExportOp(op)
            => /\ batch.pc = "exporting"
               /\ xstack # <<>>
               /\ XTop.awaiting = <<op>>
               /\ StartsWith(op.path, OutputDir(CurrentFile))
         /\ op.at = "outputDir"
            => batch.pc = "outputDir" /\ op.path = OutputDir(CurrentFile)
    /\ \A k \in 1..(Len(xstack) - 1) :
         xstack[k].awaiting = <<>> /\ xstack[k].pos.at = "sub"
    /\ stack # <<>> => batch.pc = "extracting"
    /\ xstack # <<>> => batch.pc = "exporting"
    /\ batch.pc \in {"file", "done"}
       => inflight = {} /\ stack = <<>> /\ xstack = <<>>

\* C10: the first file was converted, and a message of the second is being
\* written
C10_Witness ==
    /\ batch.idx = 2
    /\ batch.failed = <<FALSE>>
    /\ \E op \in inflight : op.at = "eml"

\* C11: when extractFolder returns a tree without any record, convertOST
\* fails for the file with exportToFiles not called: the step that follows
\* starts no filesystem operation; and exportToFiles only ever runs on a tree
\* that holds a record.
C11_EmptyTreeIsNotExported ==
    /\ [](batch.pc = "exporting" => HasRecord(exporting))
    /\ [][(/\ batch.pc = "extracting"
           /\ stack = <<>>
           /\ extracted.kind = "value"
           /\ ~HasRecord(extracted.data))
          => /\ batch'.failed = Append(batch.failed, TRUE)
             /\ batch'.error = NoData
             /\ batch'.pc \in {"file", "done"}
             /\ xstack' = <<>> /\ inflight' = {} /\ fslog' = <<>>]_vars

\* C11: the first file held no record and failed for it, nothing was started
\* for it, and the second file is at hand
C11_Witness ==
    /\ batch.pc = "file"
    /\ batch.idx = 2
    /\ batch.failed = <<TRUE>>
    /\ batch.error = NoData
    /\ xstack = <<>> /\ inflight = {} /\ fslog = <<>>

----------------------------------------------------------------------------
(* The files of one conversion *)

\* line is one of the lines of text
HasLine(text, line) ==
    \E k \in 1..(Len(text) - Len(line) + 1) :
        /\ SubSeq(text, k, k + Len(line) - 1) = line
        /\ k = 1 \/ (k > 2 /\ SubSeq(text, k - 2, k - 1) = CRLF)
        /\ \/ k + Len(line) - 1 = Len(text)
           \/ /\ k + Len(line) + 1 <= Len(text)
              /\ SubSeq(text, k + Len(line), k + Len(line) + 1) = CRLF

\* C13: the mailbox folder "Inbox" with the message "Hello" (plain body "Hi",
\* no attachment, no date) and the contact "Jane Doe" (jane@x.com), extracted
\* and exported without a failure, leaves Inbox/Emails/_Hello.eml, a text/plain
\* document that is no multipart, and Inbox/Contacts/Jane Doe.vcf with the
\* lines FN:Jane Doe and EMAIL:jane@x.com; no Attachments directory is made.
C13_InboxScenario ==
    (/\ batch.pc = "exporting"
     /\ xstack = <<>>
     /\ xresult = "ok"
     /\ AllFulfilled(fslog)
     /\ exporting.name = Inbox
     /\ exporting.messages = <<MsgPlain>>
     /\ Len(exporting.contacts) = 1
     /\ exporting.appointments = <<>>
     /\ exporting.subfolders = <<>>)
    => LET inbox == Join(OutputDir(CurrentFile), Inbox) IN
       /\ \E f \in FilesOf(fslog) :
            /\ f.path = Join(Join(inbox, DirEmails), <<"_">> \o Hello \o ExtEml)
            /\ HasLine(f.content, TextPlainCharset)
            /\ ~Includes(f.content, MultipartMixed)
       /\ \E f \in FilesOf(fslog) :
            /\ f.path = Join(Join(inbox, DirContacts), JaneDoe \o ExtVcf)
            /\ HasLine(f.content, VCardFN \o JaneDoe)
            /\ HasLine(f.content, VCardEmail \o JaneEmail)
       /\ \A k \in DOMAIN fslog : fslog[k].op.at # "attDir"

----------------------------------------------------------------------------
(* The message files *)

\* The top activation awaits the writeFile of a message file
WritingEml == xstack # <<>> /\ XTop.awaiting # <<>> /\ XTop.pos.at = "eml"

WrittenMessage == XTop.data.messages[XTop.pos.i]

WrittenText == XTop.awaiting[1].content

\* A line of text begins with prefix
LineStarts(text, prefix) ==
    \E k \in 1..(Len(text) - Len(prefix) + 1) :
        /\ SubSeq(text, k, k + Len(prefix) - 1) = prefix
        /\ k = 1 \/ (k > 2 /\ SubSeq(text, k - 2, k - 1) = CRLF)

\* C14: in the text written for a message, an empty sender, an empty list of
\* recipients, an empty subject leave no From, To, Subject line, and no such
\* line has an empty value.
C14_NoHeaderLineForEmptyField ==
    WritingEml
    => /\ WrittenMessage.sender = <<>> => ~LineStarts(WrittenText, HdrFrom)
       /\ WrittenMessage.recipients = <<>> => ~LineStarts(WrittenText, HdrTo)
       /\ WrittenMessage.subject = <<>> => ~LineStarts(WrittenText, HdrSubject)
       /\ ~HasLine(WrittenText, HdrFrom)
       /\ ~HasLine(WrittenText, HdrTo)
       /\ ~HasLine(WrittenText, HdrSubject)

\* The lines of text, which '\r\n' separates
RECURSIVE LinesOf(_)
LinesOf(text) ==
    LET breaks == {k \in 1..(Len(text) - 1) : SubSeq(text, k, k + 1) = CRLF} IN
    IF breaks = {} THEN <<text>>
    ELSE LET k == CHOOSE b \in breaks : \A c \in breaks : b <= c IN
         <<SubSeq(text, 1, k - 1)>> \o LinesOf(SubSeq(text, k + 2, Len(text)))

\* The n-th smallest element of a set of numbers
Nth(S, n) == CHOOSE x \in S : Cardinality({y \in S : y < x}) = n - 1

\* C15: the text written for a message with k >= 1 attachments declares a
\* multipart/mixed boundary, holds exactly k + 1 lines "--boundary", the first
\* opening the body part and the others the attachments' parts in the order of
\* the records, and exactly one line "--boundary--", its last line.
C15_MultipartHasOnePartPerAttachment ==
    (WritingEml /\ Len(WrittenMessage.attachments) >= 1)
    => \E boundary \in Boundaries :
         LET ls == LinesOf(WrittenText)
             opening == <<"-", "-">> \o boundary
             closing == opening \o <<"-", "-">>
             opened == {n \in DOMAIN ls : ls[n] = opening}
             k == Len(WrittenMessage.attachments)
         IN  /\ \E n \in DOMAIN ls : ls[n] = MultipartMixed \o boundary \o <<"\"">>
             /\ Cardinality(opened) = k + 1
             /\ {n \in DOMAIN ls : ls[n] = closing} = {Len(ls)}
             /\ LET body == Nth(opened, 1) IN
                /\ body > 1 /\ ls[body - 1] = <<>>
                /\ ls[body + 1] = BodyType(WrittenMessage.body)
                /\ ls[body + 3] = WrittenMessage.body
             /\ \A j \in 1..k :
                  ls[Nth(opened, j + 1) + 2]
                  = HdrDisposition
                    \o WithoutQuotes(WrittenMessage.attachments[j].filename)
                    \o <<"\"">>

\* C15: a message with two attachments is being written
C15_Witness ==
    /\ WritingEml
    /\ Len(WrittenMessage.attachments) = 2
    /\ Len(LinesOf(WrittenText)) > 20


\* C16 helpers: the literal directory names of exportToFiles, the segments
\* of a path below the output directory, and a name the filesystem accepts
LiteralDirs == {DirEmails, DirAttachments, DirContacts, DirCalendar}

DerivedSegments(path) ==
    {path[k] : k \in {n \in (Len(OutputPath) + 1)..Len(path) :
                        path[n] \notin LiteralDirs}}

SafeName(name) ==
    /\ Len(name) <= 180
    /\ \A k \in 1..Len(name) :
          name[k] \notin {"<", ">", ":", "\"", "/", "\\", "|", "?", "*"}

SanitizerAlphabet == {"a", "<", ">", ":", "\"", "/", "\\", "|", "?", "*"}

SanitizerInputs ==
    {<<>>, DirtyName, LongName, LongName \o DirtyName}
    \cup {<<c>> : c \in SanitizerAlphabet}
    \cup {<<c, d>> : c \in SanitizerAlphabet, d \in SanitizerAlphabet}

\* C16: sanitizeFilename returns at most 180 characters, none of them one of
\* < > : " / \ | ? *, and every path segment of a mkdir or writeFile that
\* exportToFiles starts, the literal directory names apart, is such a name:
\* the sanitized folder name, subject, contact name or attachment filename
C16_PathSegmentsAreSanitized ==
    /\ \A name \in SanitizerInputs : SafeName(sanitizeFilename(name))
    /\ \A op \in inflight \cup {fslog[k].op : k \in 1..Len(fslog)} :
          \A segment \in DerivedSegments(op.path) : SafeName(segment)

\* C16 witness: a folder with an over-long name holding a contact whose name
\* has every invalid character was exported; the directory and the file were
\* created under their sanitized names
C16_Witness ==
    /\ xresult = "ok"
    /\ exporting.name = LongName
    /\ exporting.contacts = <<ContactDirty>>
    /\ \E k \in 1..Len(fslog) :
          /\ fslog[k].ok
          /\ fslog[k].op.at = "vcf"
          /\ fslog[k].op.path =
                OutputPath \o <<Take(sanitizeFilename(LongName), 180), DirContacts,
                                <<"a", "_", "_", "_", "_", "_", "_", "_", "_", "_",
                                  "b", ".", "v", "c", "f">>>>
          /\ Len(fslog[k].op.path[2]) = 180
          /\ ~SafeName(exporting.name)


\* C17 helpers: every folder of a tree with the directory exportToFiles
\* makes for it, and the .eml files a run leaves in a directory
RECURSIVE FoldersAt(_, _)
RECURSIVE FoldersAtAll(_, _)
FoldersAt(data, basePath) ==
    LET folderPath == Join(basePath, sanitizeFilename(data.name))
    IN  {[data |-> data, folderPath |-> folderPath]}
        \cup FoldersAtAll(data.subfolders, folderPath)
FoldersAtAll(list, basePath) ==
    IF list = <<>> THEN {}
    ELSE FoldersAt(Head(list), basePath) \cup FoldersAtAll(Tail(list), basePath)

EmlFilesIn(log, emailsPath) ==
    {file \in FilesOf(log) :
        /\ file.at = "eml"
        /\ Len(file.path) = Len(emailsPath) + 1
        /\ SubSeq(file.path, 1, Len(emailsPath)) = emailsPath}

\* C17: after a run of exportToFiles in which no filesystem operation
\* failed, the Emails directory of every folder holds as many distinct .eml
\* files as the folder has messages, messages with the same sent date and
\* subject included
C17_OneEmlFilePerMessage ==
    (xresult = "ok" /\ AllFulfilled(fslog))
    => \A folder \in FoldersAt(exporting, OutputPath) :
         Cardinality(EmlFilesIn(fslog, Join(folder.folderPath, DirEmails)))
           = Len(folder.data.messages)


\* C18 helper: the records of a folder, subfolders apart
OwnRecords(data) == <<data.messages, data.contacts, data.appointments>>

\* C18: when a getNextChild call raises, the first one or a later one, only
\* the activation that made it changes: it keeps the records it collected
\* and goes on to its subfolder descent; the callers' activations and the
\* outcome are untouched.  From then on the activation makes no further
\* getNextChild call and its own records stay as they were.
C18_CursorFailureEndsEnumerationOnly ==
    /\ [](\A f \in Frames : f.cursorRaised => f.pc \in AfterLoop)
    /\ [][\A k \in 1..Len(stack) :
            k <= Len(stack')
            => /\ (~stack[k].cursorRaised /\ stack'[k].cursorRaised)
                  => /\ k = Len(stack) /\ Len(stack') = Len(stack)
                     /\ stack[k].pc \in {"first", "loop", "advance"}
                     /\ stack'[k].pc = "subfolders"
                     /\ stack'[k].calls = stack[k].calls + 1
                     /\ stack'[k].data = stack[k].data
                     /\ SubSeq(stack', 1, k - 1) = SubSeq(stack, 1, k - 1)
                     /\ extracted' = extracted
               /\ stack[k].cursorRaised
                  => /\ stack'[k].cursorRaised
                     /\ stack'[k].calls = stack[k].calls
                     /\ OwnRecords(stack'[k].data) = OwnRecords(stack[k].data)]_vars

\* C18 witness: the first getNextChild of a folder raised and the folder
\* went on into its subfolder; there a later getNextChild raised after one
\* message was recorded, and the subfolder is at its own descent
C18_Witness ==
    /\ Len(stack) = 2
    /\ stack[1].cursorRaised /\ stack[1].calls = 1 /\ stack[1].pc = "await"
    /\ stack[2].cursorRaised /\ stack[2].calls = 2
    /\ Len(stack[2].data.messages) = 1
    /\ stack[2].pc = "subfolders"


\* C19: when the extractFolder call for a subfolder settles, the caller's
\* for-of loop goes on with the next subfolder: a call that raised (it
\* ended before its return statement) leaves the caller's subfolders as
\* they were, a call that returned is attached if it is not empty; a
\* folder returns only after every subfolder of its list was recursed
\* into.  When getSubFolders raises the folder has no subfolders and goes
\* to its return statement with its messages, contacts and appointments
\* unchanged.
C19_SubfolderFailuresAreLocal ==
    /\ [](\A f \in Frames :
            /\ f.j <= f.kids
            /\ f.listRaised => /\ f.pc = "return"
                               /\ f.data.subfolders = <<>>)
    /\ [][/\ Len(stack') = Len(stack) - 1 /\ Len(stack') >= 1
            => LET child == stack[Len(stack)]
                   before == stack[Len(stack')]
                   after == stack'[Len(stack')]
                   returned == child.pc \in {"return", "children"}
               IN  /\ returned => child.j = child.kids
                   /\ after.j = before.j + 1
                   /\ after.kids = before.kids
                   /\ after.pc = "children"
                   /\ OwnRecords(after.data) = OwnRecords(before.data)
                   /\ after.data.subfolders =
                        IF returned /\ Records(child.data)
                                         + Len(child.data.subfolders) > 0
                        THEN Append(before.data.subfolders, child.data)
                        ELSE before.data.subfolders
          /\ \A k \in 1..Len(stack) :
               (k <= Len(stack') /\ ~stack[k].listRaised /\ stack'[k].listRaised)
               => /\ k = Len(stack) /\ Len(stack') = Len(stack)
                  /\ stack[k].pc = "subfolders"
                  /\ stack'[k].data = stack[k].data
                  /\ SubSeq(stack', 1, k - 1) = SubSeq(stack, 1, k - 1)
                  /\ extracted' = extracted]_vars

\* C19 witness: of a folder's two subfolders the first call raised and the
\* second is running; in it one message was recorded and getSubFolders
\* raised
C19_Witness ==
    /\ Len(stack) = 2
    /\ stack[1].kids = 2 /\ stack[1].j = 1 /\ stack[1].childRaised = 1
    /\ stack[1].pc = "await" /\ stack[1].data.subfolders = <<>>
    /\ stack[2].listRaised /\ Len(stack[2].data.messages) = 1


\* C20 helpers: the visited IPM.Note items of a frame, in order, and the
\* records of the attachment objects that drain, in index order
IsNoteEntry(e) == ~e.cls.raise /\ ~IsUnknownType(e.cls) /\ IsNote(e.cls)

RECURSIVE Drained(_)
Drained(tried) ==
    IF tried = <<>> THEN <<>>
    ELSE ExtractAttachment(Head(tried), <<>>) \o Drained(Tail(tried))

\* C20 as stated: whatever fails while the attachments of a message are
\* extracted, reading the attachment count included, the MessageRecord is
\* appended: every visited message item whose record construction did not
\* raise has its record.
C20_AttachmentFailureKeepsMessage ==
    \A f \in Frames :
        Len(f.data.messages)
          = Len(SelectSeq(f.seen, LAMBDA e :
                    IsNoteEntry(e) /\ (~e.raised \/ e.countRaised)))

\* C20 amended: a failure inside the attachment loop (getAttachment raising,
\* a missing filename or stream, a stream read error, a failed or zero-byte
\* drain) never prevents the MessageRecord: every visited message item
\* whose attachment count was read and whose record construction did not
\* raise has its record, holding exactly the attachments that drained, in
\* index order.  A raise reading the attachment count is an item-level
\* failure: that message is not recorded.
C20_AttachmentLoopFailureKeepsMessage ==
    \A f \in Frames :
        LET notes == SelectSeq(f.seen, LAMBDA e : IsNoteEntry(e) /\ ~e.raised)
        IN  /\ Len(f.data.messages) = Len(notes)
            /\ \A n \in 1..Len(notes) :
                  /\ ~notes[n].countRaised
                  /\ f.data.messages[n].attachments = Drained(notes[n].tried)
            /\ \A k \in 1..Len(f.seen) : f.seen[k].countRaised => f.seen[k].raised

\* C20 witness: a message with two attachments, the first drained and the
\* second's getAttachment raised, is recorded with the first
C20_Witness ==
    \E f \in Frames :
        /\ Len(f.seen) = 1 /\ IsNoteEntry(f.seen[1])
        /\ f.seen[1].attRaised /\ ~f.seen[1].raised
        /\ Len(f.seen[1].tried) = 2
        /\ ~f.seen[1].tried[1].getRaises /\ f.seen[1].tried[2].getRaises
        /\ Len(f.data.messages) = 1
        /\ Len(f.data.messages[1].attachments) = 1


\* C21: the byte-at-a-time read is attempted for an attachment exactly when
\* the chunked strategy raised and the declared size is below 1 MiB
\* (1048576); it is never attempted when the chunked strategy completed
\* without raising.
C21_FallbackIffRaisedAndSmall ==
    (drainOut.done /\ Readable(attIn))
    => (drainOut.fallback
          <=> (/\ ChunkLoop(attIn.stream, 1, 0, <<>>).raised
               /\ attIn.size < 1048576))


\* C22 helpers: a tag names a category by exact value or namespace prefix,
\* and the visited items of a frame that are of a category and raised
\* nothing at item level
InCategory(cls, category) ==
    cls.has /\ (cls.s = category \/ StartsWith(cls.s, category \o <<".">>))

OfCategory(f, category) ==
    {k \in DOMAIN f.seen :
        /\ ~f.seen[k].cls.raise
        /\ InCategory(f.seen[k].cls, category)
        /\ ~f.seen[k].raised}

\* C22: an item is handled as a Message iff its tag is IPM.Note or begins
\* IPM.Note., as a Contact iff it is IPM.Contact or begins IPM.Contact., as
\* an Appointment iff it is IPM.Appointment or begins IPM.Appointment.: each
\* list holds one record per visited item of its category that raised
\* nothing, and items of every other tag, an absent one included, add none.
C22_ClassifiedByValueOrPrefix ==
    \A f \in Frames :
        /\ Len(f.data.messages) = Cardinality(OfCategory(f, IpmNote))
        /\ Len(f.data.contacts) = Cardinality(OfCategory(f, IpmContact))
        /\ Len(f.data.appointments) = Cardinality(OfCategory(f, IpmAppointment))


\* C23 helper: the pcs at which a delivered item is in hand, not yet visited
InHand == {"loop", "attachments", "message"}

\* C23: the cursor is consumed one item at a time.  While an item is in
\* hand it is the one delivered last and every item before it was visited;
\* once it is visited, and after the loop, the items visited are the items
\* delivered; getNextChild was called once per delivered item, and once
\* more when it answered null or raised.  A step that visits an item visits
\* the item in hand and makes no getNextChild call unless the item was of
\* unknown type, and then one; every other step that calls getNextChild
\* calls it once.  The lists of messages, contacts and appointments grow
\* only at their end, by one record, in the step that visits the item.
C23_CursorConsumedInOrder ==
    /\ [](\A f \in Frames :
            /\ f.pc \in InHand
               => /\ f.item.present
                  /\ f.delivered = Len(f.seen) + 1
                  /\ f.calls = f.delivered
            /\ f.pc = "advance"
               => f.delivered = Len(f.seen) /\ f.calls = f.delivered
            /\ (f.pc \in AfterLoop /\ f.total > 0)
               => f.delivered = Len(f.seen) /\ f.calls = f.delivered + 1)
    /\ [][\A k \in 1..Len(stack) :
            k <= Len(stack')
            => LET f == stack[k]
                   g == stack'[k]
                   visits == Len(g.seen) = Len(f.seen) + 1
               IN  /\ Len(g.seen) \in {Len(f.seen), Len(f.seen) + 1}
                   /\ g.calls \in {f.calls, f.calls + 1}
                   /\ g.delivered \in {f.delivered, f.delivered + 1}
                   /\ visits
                      => /\ f.pc \in InHand
                         /\ Len(g.seen) = f.delivered
                         /\ g.seen[Len(g.seen)].cls = f.item.cls
                         /\ SubSeq(g.seen, 1, Len(f.seen)) = f.seen
                         /\ g.calls = f.calls + 1
                               <=> (~f.item.cls.raise /\ IsUnknownType(f.item.cls))
                   /\ \A list \in {"messages", "contacts", "appointments"} :
                        /\ IsPrefix(f.data[list], g.data[list])
                        /\ Len(g.data[list]) <= Len(f.data[list]) + 1
                        /\ Len(g.data[list]) > Len(f.data[list]) => visits]_vars

\* C23 witness: a folder of three items, the first of unknown type, the
\* second raising, the third a contact that was recorded: three visits
\* after three getNextChild calls, the items seen in the order delivered
C23_Witness ==
    \E f \in Frames :
        /\ f.total = 3 /\ f.pc = "advance"
        /\ f.calls = 3 /\ f.delivered = 3 /\ Len(f.seen) = 3
        /\ IsUnknownType(f.seen[1].cls) /\ ~f.seen[1].cls.raise
        /\ f.seen[2].raised
        /\ f.seen[3].cls = Class(IpmContact) /\ ~f.seen[3].raised
        /\ Len(f.data.contacts) = 1


\* C24 helper: the file name of a path
LastSegment(path) == path[Len(path)]

\* C24: every file exportToFiles writes for a message has a name ending in
\* .eml, for a contact in .vcf, for an appointment in .ics
C24_FilesKeepTheirExtension ==
    \A op \in inflight \cup {fslog[k].op : k \in 1..Len(fslog)} :
        /\ op.at = "eml" => EndsWith(LastSegment(op.path), <<".", "e", "m", "l">>)
        /\ op.at = "vcf" => EndsWith(LastSegment(op.path), <<".", "v", "c", "f">>)
        /\ op.at = "ics" => EndsWith(LastSegment(op.path), <<".", "i", "c", "s">>)


\* C25 helpers: the position of an activation in its item loop, ordered
\* first by the getNextChild calls made, then by the items visited, then by
\* the place in the loop body, then by the attachment index
LoopPcs == {"first", "loop", "attachments", "message", "advance"}

PcRank(pc) ==
    CASE pc = "attachments" -> 1 [] pc = "message" -> 2 [] pc = "advance" -> 3
      [] OTHER -> 0

Before(f, g) ==
    \/ f.calls < g.calls
    \/ f.calls = g.calls /\ Len(f.seen) < Len(g.seen)
    \/ f.calls = g.calls /\ Len(f.seen) = Len(g.seen) /\ PcRank(f.pc) < PcRank(g.pc)
    \/ f.calls = g.calls /\ Len(f.seen) = Len(g.seen) /\ PcRank(f.pc) = PcRank(g.pc)
       /\ f.i < g.i

\* C25: with every reader call returning or raising, a finite tree, finitely
\* many items and finite streams, extractFolder terminates: the outermost
\* call settles.  Every step of an activation in its item loop (on an item
\* that raises, an item of unknown type, a failing attachment) moves it
\* forward: a further getNextChild call, a further item visited, a later
\* place in the loop body or the next attachment index, each of them
\* bounded by what the folder holds.
C25_ExtractTerminates ==
    /\ <>(stack = <<>> /\ extracted.kind # "none")
    /\ [](\A f \in Frames :
            /\ f.calls <= f.total + 1
            /\ Len(f.seen) <= f.total
            /\ f.i <= f.nAtt)
    /\ [][(stack # <<>> /\ Top.pc \in LoopPcs /\ Len(stack') = Len(stack))
          => Before(Top, stack'[Len(stack)])]_vars

\* C25 witness: the outermost activation is at its return statement after a
\* folder of two items: one whose class raised and a message whose
\* attachment raised, recorded all the same
C25_Witness ==
    /\ Len(stack) = 1
    /\ Top.pc = "return"
    /\ Len(Top.seen) = 2 /\ Top.calls = 3
    /\ Top.seen[1].cls.raise
    /\ IsNoteEntry(Top.seen[2]) /\ Top.seen[2].attRaised
    /\ Len(Top.data.messages) = 1

====
